---- MODULE Spec2Model ----
(***************************************************************************)
(* PathPilot lab analytics: the status classifier of the FHIR client, the  *)
(* risk score calculator, the lab trend processor and the deterioration    *)
(* detector, as state machines over the collections they are applied to.   *)
(*                                                                         *)
(* Numbers.  Lab values, reference bounds and thresholds are decimal       *)
(* numbers in the source; here every such number x is the integer 10 * x   *)
(* (tenths), and arithmetic on them is exact.  A product with 1.5 or 0.5   *)
(* is compared after multiplying both sides by 2.  NaN is a value of its   *)
(* own (FloatNaN) and every comparison with it is false, as in JavaScript; *)
(* a quotient is kept as numerator and denominator, so that x/0 is         *)
(* +Infinity, -Infinity or NaN by the signs, as in IEEE 754.               *)
(*                                                                         *)
(* Time.  effectiveDateTime and Date.now() are counted in hours.           *)
(***************************************************************************)
EXTENDS Integers, Sequences, FiniteSets, TLC

VARIABLES
    now,            \* Date.now(), in hours
    labs,           \* the collection handed to calculatePatientRisk
    riskScore,      \* the RiskScore it returned for (labs, now)
    obs,            \* the FHIRObservation handed to transformObservation
    labResult,      \* the LabResult it returned, or Pending
    labResults,     \* the collection handed to processLabTrends
    labTrends,      \* the LabTrend[] it returned, or Pending
    currentLabs,    \* detectDeterioration's first argument
    previousLabs,   \* detectDeterioration's second argument
    deterioration,  \* the boolean it returned, or Pending
    meldLabs,       \* the collection handed to calculateMELD
    meld,           \* the number or null it returned, or Pending
    organLabs,      \* the collection handed to calculateOrganSystemRisks
    organRisks,     \* the OrganSystemRisk[] it returned, or Pending
    narrativeLab,   \* getLabNarrative's first argument
    narrativeTrend, \* its second argument: Returned(trend), or Pending when omitted
    narrative,      \* the string it returned, or Pending
    currentPatientId,       \* LabDashboard state: the patient requested last
    patient,                \* LabDashboard state: the id of the patient shown
    dashboardLabResults,    \* LabDashboard state labResults: the patient they belong to
    dashboardLabTrends,     \* LabDashboard state labTrends: the patient they belong to
    diagnosticReports,      \* LabDashboard state: the patient they belong to
    loading,                \* LabDashboard state
    refreshing,             \* LabDashboard state
    calls,                  \* the fetchData calls in flight, in order of their start
    started,                \* the number of fetchData calls started so far
    recentPatients,         \* localStorage item 'recentPatients', parsed
    isOpen,                 \* PatientSelector state: the modal is open
    reportedIds       \* the ids handed to onPatientSelect, in call order

vars == <<now, labs, riskScore, obs, labResult, labResults, labTrends,
          currentLabs, previousLabs, deterioration, meldLabs, meld,
          organLabs, organRisks, narrativeLab, narrativeTrend, narrative,
          currentPatientId, patient, dashboardLabResults, dashboardLabTrends,
          diagnosticReports, loading, refreshing, calls, started, recentPatients,
          isOpen,
          reportedIds>>

riskVars  == <<now, labs, riskScore>>
obsVars   == <<obs, labResult>>
trendVars == <<labResults, labTrends>>
deterVars == <<currentLabs, previousLabs, deterioration>>
meldVars  == <<meldLabs, meld>>
organVars == <<organLabs, organRisks>>
narrativeVars == <<narrativeLab, narrativeTrend, narrative>>
dashboardVars == <<currentPatientId, patient, dashboardLabResults, dashboardLabTrends,
                   diagnosticReports, loading, refreshing, calls, started>>
selectorVars  == <<recentPatients, isOpen, reportedIds>>

\* A call's outcome: Pending before it returns, Returned(x) once it returned x.
Pending == <<>>
Returned(x) == <<x>>

-----------------------------------------------------------------------------
(* Strings *)

LowerOf(c) ==
    CASE c = "A" -> "a" [] c = "B" -> "b" [] c = "C" -> "c" [] c = "D" -> "d"
      [] c = "E" -> "e" [] c = "F" -> "f" [] c = "G" -> "g" [] c = "H" -> "h"
      [] c = "I" -> "i" [] c = "J" -> "j" [] c = "K" -> "k" [] c = "L" -> "l"
      [] c = "M" -> "m" [] c = "N" -> "n" [] c = "O" -> "o" [] c = "P" -> "p"
      [] c = "Q" -> "q" [] c = "R" -> "r" [] c = "S" -> "s" [] c = "T" -> "t"
      [] c = "U" -> "u" [] c = "V" -> "v" [] c = "W" -> "w" [] c = "X" -> "x"
      [] c = "Y" -> "y" [] c = "Z" -> "z" [] OTHER -> c

RECURSIVE ToLowerCase(_)
ToLowerCase(s) ==
    IF Len(s) = 0 THEN ""
    ELSE LowerOf(SubSeq(s, 1, 1)) \o ToLowerCase(SubSeq(s, 2, Len(s)))

\* String.prototype.includes
Includes(s, k) ==
    \E i \in 1..(Len(s) - Len(k) + 1) : SubSeq(s, i, i + Len(k) - 1) = k

\* The substrings the calculators look for in a lower-cased code.
CodeKeys ==
    {"creatinine", "wbc", "white", "lactate", "bilirubin", "alt", "alanine",
     "inr", "platelet", "plt", "bun", "egfr", "troponin", "bnp", "ck", "ast",
     "albumin"}

\* The codes of the results the specifications below draw from.
Codes ==
    {"creatinine", "2160-0 Creatinine", "WBC", "lactate", "Lactate", "bilirubin",
     "INR", "sodium", "potassium", "chloride", "Creatinine [Mass/volume]", "K",
     "Bilirubin/Creatinine", "BUN", "Troponin I", "CK-MB", "ALT",
     "Albumin/Creatinine"}

\* code.toLowerCase().includes(key), computed once for every code and key
CodeKeysIn == [c \in Codes |-> {k \in CodeKeys : Includes(ToLowerCase(c), k)}]

CodeHas(lab, key) == key \in CodeKeysIn[lab.code]

-----------------------------------------------------------------------------
(* Numbers *)

Num(n) == [t |-> "number", n |-> n, s |-> ""]      \* a value of type number
Str(s) == [t |-> "string", n |-> 0, s |-> s]       \* a value of type string

FloatNaN  == [nan |-> TRUE,  n |-> 0]
Finite(n) == [nan |-> FALSE, n |-> n]
isNaN(x)  == x.nan

Digits == {"0", "1", "2", "3", "4", "5", "6", "7", "8", "9"}

DigitValue(c) ==
    CASE c = "0" -> 0 [] c = "1" -> 1 [] c = "2" -> 2 [] c = "3" -> 3
      [] c = "4" -> 4 [] c = "5" -> 5 [] c = "6" -> 6 [] c = "7" -> 7
      [] c = "8" -> 8 [] c = "9" -> 9

\* The integer written by the digits of s from position i on, and where they end.
RECURSIVE ScanDigits(_, _, _)
ScanDigits(s, i, acc) ==
    IF i <= Len(s) /\ SubSeq(s, i, i) \in Digits
    THEN ScanDigits(s, i + 1, 10 * acc + DigitValue(SubSeq(s, i, i)))
    ELSE [val |-> acc, pos |-> i]

\* parseFloat of a string: its longest numeric prefix (unsigned, at most one
\* decimal digit kept), NaN when the string does not start with a digit.
ParseFloatString(s) ==
    LET ip == ScanDigits(s, 1, 0) IN
    IF ip.pos = 1 THEN FloatNaN
    ELSE IF /\ ip.pos + 1 <= Len(s)
            /\ SubSeq(s, ip.pos, ip.pos) = "."
            /\ SubSeq(s, ip.pos + 1, ip.pos + 1) \in Digits
         THEN Finite(10 * ip.val + DigitValue(SubSeq(s, ip.pos + 1, ip.pos + 1)))
         ELSE Finite(10 * ip.val)

\* parseFloat(value), parseFloat(String(value))
parseFloat(v) == IF v.t = "number" THEN Finite(v.n) ELSE ParseFloatString(v.s)

Min(a, b) == IF a < b THEN a ELSE b
Max(a, b) == IF a > b THEN a ELSE b
Abs(a) == IF a < 0 THEN -a ELSE a

-----------------------------------------------------------------------------
(* Sequences *)

\* Array.prototype.filter
Filter(seq, P(_)) == SelectSeq(seq, P)

\* Array.prototype.find: the index of the first element satisfying P, 0 if none
FirstOf(S) == IF S = {} THEN 0 ELSE CHOOSE i \in S : \A j \in S : i <= j

FindIndex(seq, P(_)) == FirstOf({i \in 1..Len(seq) : P(seq[i])})

RECURSIVE SumSeq(_)
SumSeq(seq) == IF seq = <<>> THEN 0 ELSE Head(seq) + SumSeq(Tail(seq))

\* Array.prototype.join
RECURSIVE Join(_, _)
Join(seq, sep) ==
    IF seq = <<>> THEN ""
    ELSE IF Len(seq) = 1 THEN seq[1]
    ELSE seq[1] \o sep \o Join(Tail(seq), sep)

-----------------------------------------------------------------------------
(* Dates *)

DateTime(h) == [valid |-> TRUE, t |-> h]       \* a parseable ISO timestamp
InvalidDate == [valid |-> FALSE, t |-> 0]      \* one that Date cannot parse

\* new Date(s).getTime()
getTime(d) == IF d.valid THEN Finite(d.t) ELSE FloatNaN

HoursPerDay == 24


-----------------------------------------------------------------------------
(* RiskScoreCalculator.calculatePatientRisk *)

Lab(code, name, value, status, when) ==
    [code |-> code, name |-> name, value |-> value, status |-> status,
     effectiveDateTime |-> when]

\* Mutant: a result taken after the clock's time is outside the window.
InRecencyWindowPastOnly(lab, clock) ==
    LET labDate == getTime(lab.effectiveDateTime) IN
    ~isNaN(labDate) /\ clock - labDate.n >= 0 /\ clock - labDate.n <= 2 * HoursPerDay

\* Mutant: every result is in the window.
InRecencyWindowAll(lab, clock) == TRUE

\* labs.filter(lab => daysSince <= 2), daysSince = (Date.now() - labDate) / day
InRecencyWindow(lab, clock) ==
    LET labDate == getTime(lab.effectiveDateTime) IN
    ~isNaN(labDate) /\ clock - labDate.n <= 2 * HoursPerDay

RecentLabs(ls, clock) == Filter(ls, LAMBDA l : InRecencyWindow(l, clock))

CountStatus(ls, st) == Len(Filter(ls, LAMBDA l : l.status = st))

\* The four marker patterns; each looks at the first result whose code matches.
AKIMarker(ls) ==
    LET c == FindIndex(ls, LAMBDA l : CodeHas(l, "creatinine")) IN
    /\ c # 0
    /\ ls[c].status # "normal"
    /\ LET value == parseFloat(ls[c].value) IN ~isNaN(value) /\ value.n > 20

SepsisMarker(ls) ==
    LET w == FindIndex(ls, LAMBDA l : CodeHas(l, "wbc") \/ CodeHas(l, "white"))
        a == FindIndex(ls, LAMBDA l : CodeHas(l, "lactate"))
    IN  \/ (w # 0 /\ ls[w].status = "critical")
        \/ (a # 0 /\ LET v == parseFloat(ls[a].value) IN ~isNaN(v) /\ v.n > 20)

HepaticMarker(ls) ==
    LET b == FindIndex(ls, LAMBDA l : CodeHas(l, "bilirubin"))
        a == FindIndex(ls, LAMBDA l : CodeHas(l, "alt") \/ CodeHas(l, "alanine"))
    IN  \/ (b # 0 /\ ls[b].status # "normal")
        \/ (a # 0 /\ ls[a].status # "normal")

CoagulopathyMarker(ls) ==
    LET i == FindIndex(ls, LAMBDA l : CodeHas(l, "inr"))
        p == FindIndex(ls, LAMBDA l : CodeHas(l, "platelet") \/ CodeHas(l, "plt"))
    IN  \/ (i # 0 /\ LET v == parseFloat(ls[i].value) IN ~isNaN(v) /\ v.n > 20)
        \/ (p # 0 /\ LET v == parseFloat(ls[p].value) IN ~isNaN(v) /\ v.n < 500)

checkHighRiskMarkers(ls) ==
    LET aki == IF AKIMarker(ls) THEN <<[m |-> "AKI Risk", pts |-> 15]>> ELSE <<>>
        sep == IF SepsisMarker(ls) THEN <<[m |-> "Sepsis Risk", pts |-> 20]>> ELSE <<>>
        hep == IF HepaticMarker(ls)
               THEN <<[m |-> "Hepatic Dysfunction", pts |-> 10]>> ELSE <<>>
        coa == IF CoagulopathyMarker(ls)
               THEN <<[m |-> "Coagulopathy", pts |-> 15]>> ELSE <<>>
        hit == aki \o sep \o hep \o coa
    IN  [score   |-> SumSeq([i \in 1..Len(hit) |-> hit[i].pts]),
         markers |-> [i \in 1..Len(hit) |-> hit[i].m]]

\* Mutant: the cap of 45 is missing.
CriticalScoreUncapped(criticalCount) == criticalCount * 15

CriticalScore(criticalCount) == Min(criticalCount * 15, 45)

AbnormalScore(abnormalCount) == Min(abnormalCount * 3, 30)

\* Mutant: the breakpoints are exclusive.
RiskLevelExclusive(totalScore) ==
    IF totalScore > 80 THEN "critical"
    ELSE IF totalScore > 60 THEN "high"
    ELSE IF totalScore > 40 THEN "moderate"
    ELSE "low"

RiskLevel(totalScore) ==
    IF totalScore >= 80 THEN "critical"
    ELSE IF totalScore >= 60 THEN "high"
    ELSE IF totalScore >= 40 THEN "moderate"
    ELSE "low"

\* Mutant: the clamp to 100 is missing.
FinalScoreUnclamped(totalScore) == totalScore

FinalScore(totalScore) == Min(totalScore, 100)

\* Mutant: the factor is pushed whatever the count.
CriticalFactorAlways(criticalCount) ==
    <<[name |-> "Critical Values", weight |-> 35,
       value |-> ToString(criticalCount) \o " critical",
       contribution |-> Min(criticalCount * 15, 45)]>>

\* The three factors; weight is in hundredths.
CriticalFactor(criticalCount) ==
    IF criticalCount > 0
    THEN <<[name |-> "Critical Values", weight |-> 35,
            value |-> ToString(criticalCount) \o " critical",
            contribution |-> CriticalScore(criticalCount)]>>
    ELSE <<>>

AbnormalFactor(abnormalCount) ==
    IF abnormalCount > 0
    THEN <<[name |-> "Abnormal Values", weight |-> 25,
            value |-> ToString(abnormalCount) \o " abnormal",
            contribution |-> AbnormalScore(abnormalCount)]>>
    ELSE <<>>

MarkerFactor(highRiskMarkers) ==
    IF highRiskMarkers.score > 0
    THEN <<[name |-> "High-Risk Markers", weight |-> 40,
            value |-> Join(highRiskMarkers.markers, ", "),
            contribution |-> highRiskMarkers.score]>>
    ELSE <<>>

\* totalScore += ..., in the branches that push the factors
TotalScore(criticalCount, abnormalCount, highRiskMarkers) ==
    (IF criticalCount > 0 THEN CriticalScore(criticalCount) ELSE 0)
    + (IF abnormalCount > 0 THEN AbnormalScore(abnormalCount) ELSE 0)
    + (IF highRiskMarkers.score > 0 THEN highRiskMarkers.score ELSE 0)

calculatePatientRisk(ls, clock) ==
    LET recentLabs == RecentLabs(ls, clock)
        criticalCount == CountStatus(recentLabs, "critical")
        abnormalCount == CountStatus(recentLabs, "abnormal")
        highRiskMarkers == checkHighRiskMarkers(recentLabs)
        totalScore == TotalScore(criticalCount, abnormalCount, highRiskMarkers)
    IN  [score   |-> FinalScore(totalScore),
         level   |-> RiskLevel(totalScore),
         factors |-> CriticalFactor(criticalCount) \o AbnormalFactor(abnormalCount)
                        \o MarkerFactor(highRiskMarkers)]

(* The collections calculatePatientRisk is applied to: up to MaxMarkerLabs   *)
(* results drawn from MarkerLabs, then up to MaxPlainCritical copies of      *)
(* PlainCritical, then up to MaxPlainAbnormal copies of PlainAbnormal (two   *)
(* results no marker pattern looks at).  The clock starts 48 hours after     *)
(* time 0 and advances MaxTicks hours.                                       *)
MaxMarkerLabs == 2
MaxPlainCritical == 4
MaxPlainAbnormal == 11
MaxTicks == 1

Recent   == DateTime(40)
Boundary == DateTime(0)           \* exactly 48 hours old when the clock starts
Old      == DateTime(0 - 24)
Future   == DateTime(72)

MarkerLabs ==
    { Lab("creatinine", "Creatinine", Num(30), "critical", Recent),
      Lab("2160-0 Creatinine", "Creatinine", Num(10), "normal", Recent),
      Lab("WBC", "White Blood Cells", Num(250), "critical", Boundary),
      Lab("lactate", "Lactate", Num(30), "normal", Recent),
      Lab("Lactate", "Lactate", Str("N/A"), "abnormal", Recent),
      Lab("bilirubin", "Bilirubin, Total", Num(30), "critical", Recent),
      Lab("INR", "INR(PT)", Num(30), "normal", Future),
      Lab("sodium", "Sodium", Num(1650), "critical", Recent),
      Lab("potassium", "Potassium", Num(70), "critical", InvalidDate),
      Lab("sodium", "Sodium", Num(1300), "abnormal", Old) }

PlainCritical == Lab("chloride", "Chloride", Num(1300), "critical", Recent)
PlainAbnormal == Lab("chloride", "Chloride", Num(1120), "abnormal", Recent)

Occurrences(seq, x) == Cardinality({i \in 1..Len(seq) : seq[i] = x})

\* The parts of the state a specification does not use.
IdleRisk  == now = 0 /\ labs = <<>> /\ riskScore = Pending
IdleObs   == obs = <<>> /\ labResult = Pending
IdleTrend == labResults = <<>> /\ labTrends = Pending
IdleDeter == currentLabs = <<>> /\ previousLabs = <<>> /\ deterioration = Pending
IdleMeld  == meldLabs = <<>> /\ meld = Pending
IdleOrgan == organLabs = <<>> /\ organRisks = Pending
IdleNarrative == narrativeLab = <<>> /\ narrativeTrend = Pending /\ narrative = Pending
\* What a state of LabDashboard holds before any response: null, [], [], []
NoData == [patientId |-> "", call |-> 0]

IdleDashboard ==
    /\ currentPatientId = "" /\ patient = NoData /\ dashboardLabResults = NoData
    /\ dashboardLabTrends = NoData /\ diagnosticReports = NoData
    /\ loading = FALSE /\ refreshing = FALSE /\ calls = <<>> /\ started = 0
IdleSelector == recentPatients = <<>> /\ isOpen = FALSE /\ reportedIds = Pending

InitRisk ==
    /\ now = 2 * HoursPerDay
    /\ labs = <<>>
    /\ riskScore = calculatePatientRisk(<<>>, 2 * HoursPerDay)
    /\ IdleObs
    /\ IdleTrend
    /\ IdleDeter
    /\ IdleMeld
    /\ IdleOrgan
    /\ IdleNarrative
    /\ IdleDashboard
    /\ IdleSelector

\* A refresh cycle that finds one more result and recomputes the score.
RefreshWithLab(l) ==
    /\ Len(labs) < MaxMarkerLabs
    /\ Occurrences(labs, PlainCritical) = 0
    /\ Occurrences(labs, PlainAbnormal) = 0
    /\ labs' = Append(labs, l)
    /\ riskScore' = calculatePatientRisk(labs', now)
    /\ UNCHANGED <<now, obsVars, trendVars, deterVars, meldVars, organVars,
                   narrativeVars, dashboardVars, selectorVars>>

RefreshWithPlainCritical ==
    /\ Occurrences(labs, PlainCritical) < MaxPlainCritical
    /\ Occurrences(labs, PlainAbnormal) = 0
    /\ labs' = Append(labs, PlainCritical)
    /\ riskScore' = calculatePatientRisk(labs', now)
    /\ UNCHANGED <<now, obsVars, trendVars, deterVars, meldVars, organVars,
                   narrativeVars, dashboardVars, selectorVars>>

RefreshWithPlainAbnormal ==
    /\ Occurrences(labs, PlainAbnormal) < MaxPlainAbnormal
    /\ labs' = Append(labs, PlainAbnormal)
    /\ riskScore' = calculatePatientRisk(labs', now)
    /\ UNCHANGED <<now, obsVars, trendVars, deterVars, meldVars, organVars,
                   narrativeVars, dashboardVars, selectorVars>>

\* A refresh cycle an hour later that finds nothing new.
RefreshLater ==
    /\ now < 2 * HoursPerDay + MaxTicks
    /\ now' = now + 1
    /\ riskScore' = calculatePatientRisk(labs, now')
    /\ UNCHANGED <<labs, obsVars, trendVars, deterVars, meldVars, organVars,
                   narrativeVars, dashboardVars, selectorVars>>

NextRisk ==
    \/ \E l \in MarkerLabs : RefreshWithLab(l)
    \/ RefreshWithPlainCritical
    \/ RefreshWithPlainAbnormal
    \/ RefreshLater

SpecRisk == InitRisk /\ [][NextRisk]_vars

-----------------------------------------------------------------------------
(* FHIRClient.transformObservation: the status classifier *)

\* An optional number: a field that may be undefined.
Some(n)   == [def |-> TRUE, v |-> n]
Undefined == [def |-> FALSE, v |-> 0]

\* A FHIRObservation.  text is code.text, display is code.coding[0].display
\* ("" when absent), value is valueQuantity?.value, and ranges is the
\* referenceRange array, each entry with its optional low.value and high.value.
Observation(text, display, value, ranges) ==
    [text |-> text, display |-> display, value |-> value, ranges |-> ranges]

Range(low, high) == [low |-> low, high |-> high]

\* The absolute critical bounds, in the order Object.entries visits them.
criticalRanges ==
    << [key |-> "Potassium",  low |-> Some(25),  high |-> Some(65)],
       [key |-> "Sodium",     low |-> Some(1200), high |-> Some(1600)],
       [key |-> "Glucose",    low |-> Some(400), high |-> Some(5000)],
       [key |-> "Hemoglobin", low |-> Some(50),  high |-> Some(200)],
       [key |-> "Platelet",   low |-> Some(200), high |-> Some(10000)],
       [key |-> "Creatinine", low |-> Undefined, high |-> Some(100)] >>

\* The display names of the observations the specification draws from.
LabNames ==
    {"Potassium", "potassium, whole blood", "Sodium", "Glucose", "HEMOGLOBIN",
     "Platelet Count", "Creatinine", "Lactate", "Sodium/Potassium Ratio",
     "Unknown"}

\* labName.toLowerCase().includes(key.toLowerCase()), computed once for every
\* name: the indices of the table's keys the name contains.
TableKeysIn ==
    [n \in LabNames |->
        {k \in 1..Len(criticalRanges) :
            Includes(ToLowerCase(n), ToLowerCase(criticalRanges[k].key))}]

\* obs.code.text || obs.code.coding?.[0]?.display || 'Unknown'
LabName(o) ==
    IF o.text # "" THEN o.text
    ELSE IF o.display # "" THEN o.display
    ELSE "Unknown"

\* Mutant: an absent quantity is read as 0.
QuantityValueOrZero(o) == IF o.value.def THEN o.value ELSE Some(0)

\* obs.valueQuantity?.value
QuantityValue(o) == o.value

\* Mutant: the critical bounds of the range rule are inclusive.
RangeStatusInclusive(value, ranges) ==
    IF value.def /\ ranges # <<>>
    THEN LET refRange == ranges[1] IN
         IF refRange.high.def /\ value.v > refRange.high.v
         THEN IF 2 * value.v >= 3 * refRange.high.v THEN "critical" ELSE "abnormal"
         ELSE IF refRange.low.def /\ value.v < refRange.low.v
         THEN IF 2 * value.v <= refRange.low.v THEN "critical" ELSE "abnormal"
         ELSE "normal"
    ELSE "normal"

\* Mutant: the branch for the lower bound is missing.
RangeStatusHighOnly(value, ranges) ==
    IF value.def /\ ranges # <<>>
    THEN LET refRange == ranges[1] IN
         IF refRange.high.def /\ value.v > refRange.high.v
         THEN IF 2 * value.v > 3 * refRange.high.v THEN "critical" ELSE "abnormal"
         ELSE "normal"
    ELSE "normal"

\* Step 1, the reference range rule: value > high * 1.5 and value < low * 0.5
\* are compared with both sides doubled.
RangeStatus(value, ranges) ==
    IF value.def /\ ranges # <<>>
    THEN LET refRange == ranges[1] IN
         IF refRange.high.def /\ value.v > refRange.high.v
         THEN IF 2 * value.v > 3 * refRange.high.v THEN "critical" ELSE "abnormal"
         ELSE IF refRange.low.def /\ value.v < refRange.low.v
         THEN IF 2 * value.v < refRange.low.v THEN "critical" ELSE "abnormal"
         ELSE "normal"
    ELSE "normal"

\* Object.entries(criticalRanges).find(...): the first entry whose key the
\* name contains, 0 when there is none.
CriticalEntry(labName) == FirstOf(TableKeysIn[labName])

\* range.high && value > range.high, range.low && value < range.low: a bound
\* that is undefined or 0 is falsy.
OutsideEntry(range, v) ==
    \/ (range.high.def /\ range.high.v # 0 /\ v > range.high.v)
    \/ (range.low.def /\ range.low.v # 0 /\ v < range.low.v)

\* Step 2, the absolute table: forces critical, else keeps the status.
TableStatus(status, labName, value) ==
    LET critical == CriticalEntry(labName) IN
    IF critical # 0 /\ value.def /\ OutsideEntry(criticalRanges[critical], value.v)
    THEN "critical"
    ELSE status

transformObservation(o) ==
    LET value == QuantityValue(o)
        labName == LabName(o)
    IN  [name   |-> labName,
         value  |-> IF value.def THEN Num(value.v) ELSE Str("N/A"),
         referenceRange |-> IF o.ranges # <<>> THEN <<o.ranges[1]>> ELSE <<>>,
         status |-> TableStatus(RangeStatus(value, o.ranges), labName, value)]

(* The observations transformObservation is applied to.  Values lie on a     *)
(* grid of 0.5 from -MaxBelowZero/2 to MaxAboveZero/2, plus the points just  *)
(* at and just outside the larger bounds of the table.                       *)
MaxBelowZero == 6
MaxAboveZero == 16

ObsValues ==
    {5 * k : k \in (0 - MaxBelowZero)..MaxAboveZero}
        \cup {100, 105, 200, 205, 395, 400, 1195, 1200, 1600, 1605,
              5000, 5005, 10000, 10005}

ObsLows  == {Undefined, Some(0 - 20), Some(0), Some(35), Some(40)}
ObsHighs == {Undefined, Some(0 - 10), Some(0), Some(30), Some(50)}

\* No reference range, or one whose bounds, when both given, are in order.
ObsRanges ==
    {<<>>} \cup
    {<<Range(lo, hi)>> : lo \in ObsLows, hi \in ObsHighs}

OrderedRange(r) ==
    r = <<>> \/ ~r[1].low.def \/ ~r[1].high.def \/ r[1].low.v <= r[1].high.v

Observations ==
    {Observation(n[1], n[2], v, r) :
        n \in {<<x, "">> : x \in LabNames \ {"Unknown"}}
                \cup {<<"", x>> : x \in LabNames \ {"Unknown"}}
                \cup {<<"", "">>},
        v \in {Some(x) : x \in ObsValues} \cup {Undefined},
        r \in {x \in ObsRanges : OrderedRange(x)}}

InitClassify ==
    /\ obs \in Observations
    /\ labResult = Pending
    /\ IdleRisk
    /\ IdleTrend
    /\ IdleDeter
    /\ IdleMeld
    /\ IdleOrgan
    /\ IdleNarrative
    /\ IdleDashboard
    /\ IdleSelector

TransformObservation ==
    /\ labResult = Pending
    /\ labResult' = Returned(transformObservation(obs))
    /\ UNCHANGED <<obs, riskVars, trendVars, deterVars, meldVars, organVars,
                   narrativeVars, dashboardVars, selectorVars>>

NextClassify == TransformObservation

SpecClassify == InitClassify /\ [][NextClassify]_vars

-----------------------------------------------------------------------------
(* LabProcessor.processLabTrends *)

\* groupLabsByType: the names in the order they first appear, and each
\* name's results in input order.
RECURSIVE GroupNames(_, _)
GroupNames(seq, seen) ==
    IF seq = <<>> THEN <<>>
    ELSE IF Head(seq).name \in seen THEN GroupNames(Tail(seq), seen)
    ELSE <<Head(seq).name>> \o GroupNames(Tail(seq), seen \cup {Head(seq).name})

GroupOf(seq, labName) == Filter(seq, LAMBDA r : r.name = labName)

\* The comparator of the sort: new Date(b).getTime() - new Date(a).getTime()
CompareByDateDesc(a, b) ==
    LET ta == getTime(a.effectiveDateTime)
        tb == getTime(b.effectiveDateTime)
    IN  IF isNaN(ta) \/ isNaN(tb) THEN FloatNaN ELSE Finite(tb.n - ta.n)

\* x goes behind every element that does not compare greater than it (a NaN
\* comparison counts as equal).
InsertSorted(sorted, x) ==
    LET keep == {i \in 1..Len(sorted) :
                    LET c == CompareByDateDesc(sorted[i], x) IN isNaN(c) \/ c.n <= 0}
        k == Cardinality(keep)
    IN  SubSeq(sorted, 1, k) \o <<x>> \o SubSeq(sorted, k + 1, Len(sorted))

\* results.sort(...): a stable sort, newest first.  All timestamps of the
\* specification are parseable, so the comparator is consistent.
RECURSIVE SortInto(_, _)
SortInto(sorted, rest) ==
    IF rest = <<>> THEN sorted
    ELSE SortInto(InsertSorted(sorted, Head(rest)), Tail(rest))

SortByDateDesc(results) == SortInto(<<>>, results)

\* Mutant: the results are not filtered.
NumericResultsAll(sortedResults) == sortedResults

\* sortedResults.filter(r => typeof r.value === 'number')
NumericResults(sortedResults) == Filter(sortedResults, LAMBDA r : r.value.t = "number")

\* (delta / previousValue) * 100, as a quotient
Quotient(num, den) == [num |-> num, den |-> den]

\* Math.abs(q) < bound: false for NaN (0/0) and for the infinities (x/0)
AbsLessThan(q, bound) == q.den # 0 /\ Abs(q.num) < bound * Abs(q.den)

\* Mutant: a change of exactly 5 percent counts as stable.
TrendDirectionInclusive(delta, previousValue) ==
    IF previousValue # 0 /\ Abs(delta * 100) <= 5 * Abs(previousValue) THEN "stable"
    ELSE IF delta > 0 THEN "rising"
    ELSE "falling"

\* Mutant: no change counts as stable, whatever the previous value.
TrendDirectionEqualStable(delta, previousValue) ==
    IF delta = 0 \/ AbsLessThan(Quotient(delta * 100, previousValue), 5) THEN "stable"
    ELSE IF delta > 0 THEN "rising"
    ELSE "falling"

\* Mutant: no change counts as an increase.
TrendDirectionRisingOnTie(delta, previousValue) ==
    IF AbsLessThan(Quotient(delta * 100, previousValue), 5) THEN "stable"
    ELSE IF delta >= 0 THEN "rising"
    ELSE "falling"

TrendDirection(delta, previousValue) ==
    IF AbsLessThan(Quotient(delta * 100, previousValue), 5) THEN "stable"
    ELSE IF delta > 0 THEN "rising"
    ELSE "falling"

\* .slice(0, 10).map(...).reverse()
RECURSIVE Reverse(_)
Reverse(seq) == IF seq = <<>> THEN <<>> ELSE Reverse(Tail(seq)) \o <<Head(seq)>>

\* Mutant: every numeric result becomes a point.
TrendDataAll(numericResults) ==
    Reverse([i \in 1..Len(numericResults) |->
                [date |-> numericResults[i].effectiveDateTime,
                 value |-> numericResults[i].value.n,
                 status |-> numericResults[i].status]])

TrendData(numericResults) ==
    LET first == SubSeq(numericResults, 1, Min(Len(numericResults), 10)) IN
    Reverse([i \in 1..Len(first) |->
                [date |-> first[i].effectiveDateTime, value |-> first[i].value.n,
                 status |-> first[i].status]])

\* One iteration of the loop, for a group that has numeric results.
LabTrendOf(labName, sortedResults, numericResults) ==
    LET currentValue == numericResults[1].value.n
        hasPrevious == Len(numericResults) >= 2
        previousValue == IF hasPrevious THEN numericResults[2].value.n ELSE 0
        delta == currentValue - previousValue
    IN  [labName |-> labName,
         code |-> sortedResults[1].code,
         data |-> TrendData(numericResults),
         currentValue |-> currentValue,
         previousValue |-> IF hasPrevious THEN Some(previousValue) ELSE Undefined,
         delta |-> IF hasPrevious THEN Some(delta) ELSE Undefined,
         deltaPercent |-> IF hasPrevious THEN <<Quotient(delta * 100, previousValue)>>
                          ELSE <<>>,
         trend |-> IF hasPrevious THEN TrendDirection(delta, previousValue)
                   ELSE "stable"]

TrendsOfGroup(labName, sortedResults) ==
    IF NumericResults(sortedResults) = <<>> THEN <<>>
    ELSE <<LabTrendOf(labName, sortedResults, NumericResults(sortedResults))>>

RECURSIVE TrendsOfGroups(_, _)
TrendsOfGroups(results, names) ==
    IF names = <<>> THEN <<>>
    ELSE TrendsOfGroup(Head(names), SortByDateDesc(GroupOf(results, Head(names))))
            \o TrendsOfGroups(results, Tail(names))

processLabTrends(results) == TrendsOfGroups(results, GroupNames(results, {}))

(* The collections processLabTrends is applied to: up to MaxTrendLabs        *)
(* results drawn from TrendLabs.                                             *)
MaxTrendLabs == 3

TrendLabs ==
    {Lab("2951-2", "Sodium", v, "normal", DateTime(t)) :
        v \in {Num(0), Num(100), Num(103), Num(105), Num(106), Num(0 - 100), Str("N/A")},
        t \in {1, 2, 3}}
    \cup
    {Lab("2524-7", "Lactate", v, "abnormal", DateTime(t)) :
        v \in {Num(20), Str("N/A")}, t \in {1, 2}}

SeqsUpTo(S, n) == UNION {[1..k -> S] : k \in 0..n}

(* and the series of one analyte: up to MaxSeries sodium results, the k-th   *)
(* with value 100.0 + k/10 and taken at hour (k * stride) mod (MaxSeries +   *)
(* 1), so that the input is in ascending (stride 1), descending (stride      *)
(* MaxSeries), scrambled (stride 5) or no order of time (stride 0, all at    *)
(* the same hour); the results at the positions of a gap have no numeric     *)
(* value.                                                                    *)
MaxSeries == 12

SeriesPeriod == MaxSeries + 1

SeriesStrides == {0, 1, 5, MaxSeries}

SeriesGaps == {{}, {1}, {2, 5}, {11}}

SeriesResult(k, stride, gap) ==
    Lab("2951-2", "Sodium", IF k \in gap THEN Str("N/A") ELSE Num(1000 + k),
        "normal", DateTime((k * stride) % SeriesPeriod))

LongSeries ==
    {[k \in 1..n |-> SeriesResult(k, stride, gap)] :
        n \in 0..MaxSeries, stride \in SeriesStrides, gap \in SeriesGaps}

InitTrend ==
    /\ labResults \in SeqsUpTo(TrendLabs, MaxTrendLabs) \cup LongSeries
    /\ labTrends = Pending
    /\ IdleRisk
    /\ IdleObs
    /\ IdleDeter
    /\ IdleMeld
    /\ IdleOrgan
    /\ IdleNarrative
    /\ IdleDashboard
    /\ IdleSelector

ProcessLabTrends ==
    /\ labTrends = Pending
    /\ labTrends' = Returned(processLabTrends(labResults))
    /\ UNCHANGED <<labResults, riskVars, obsVars, deterVars, meldVars, organVars,
                   narrativeVars, dashboardVars, selectorVars>>

NextTrend == ProcessLabTrends

SpecTrend == InitTrend /\ [][NextTrend]_vars

-----------------------------------------------------------------------------
(* RiskScoreCalculator.detectDeterioration *)

\* q > bound for a quotient: x/0 is +Infinity for x > 0, -Infinity for x < 0
\* and NaN for x = 0, and a comparison with NaN is false.
GreaterThan(q, bound) ==
    IF q.den > 0 THEN q.num > bound * q.den
    ELSE IF q.den < 0 THEN q.num < bound * q.den
    ELSE q.num > 0

\* Mutant: the first previous result is taken, whatever its code.
PreviousOfAny(currentLab, previous) == IF previous = <<>> THEN 0 ELSE 1

\* previousLabs.find(p => p.code === currentLab.code)
PreviousOf(currentLab, previous) == FindIndex(previous, LAMBDA p : p.code = currentLab.code)

\* Mutant: the step from normal to abnormal is not counted.
StatusWorsenedCriticalOnly(currentLab, previousLab) ==
    IF currentLab.status = "critical" /\ previousLab.status # "critical" THEN 1
    ELSE 0

StatusWorsened(currentLab, previousLab) ==
    IF currentLab.status = "critical" /\ previousLab.status # "critical" THEN 1
    ELSE IF currentLab.status = "abnormal" /\ previousLab.status = "normal" THEN 1
    ELSE 0

ValueWorsened(currentLab, currentValue, previousValue) ==
    IF ~isNaN(currentValue) /\ ~isNaN(previousValue)
    THEN LET percentChange ==
                 Quotient((currentValue.n - previousValue.n) * 100, previousValue.n)
         IN  (IF CodeHas(currentLab, "creatinine") /\ GreaterThan(percentChange, 25)
              THEN 1 ELSE 0)
             + (IF CodeHas(currentLab, "lactate") /\ GreaterThan(percentChange, 20)
                THEN 1 ELSE 0)
    ELSE 0

\* What one pass of the forEach adds to worseningCount.
Worsening(currentLab, previous, p) ==
    IF p = 0 THEN 0
    ELSE StatusWorsened(currentLab, previous[p])
         + ValueWorsened(currentLab, parseFloat(currentLab.value),
                         parseFloat(previous[p].value))

RECURSIVE WorseningCount(_, _)
WorseningCount(current, previous) ==
    IF current = <<>> THEN 0
    ELSE Worsening(Head(current), previous, PreviousOf(Head(current), previous))
         + WorseningCount(Tail(current), previous)

detectDeterioration(current, previous) ==
    IF Len(previous) = 0 THEN FALSE
    ELSE WorseningCount(current, previous) >= 3

(* The collections detectDeterioration is applied to: up to MaxCurrent       *)
(* results drawn from CurrentLabs and up to MaxPrevious drawn from           *)
(* PreviousLabs.                                                             *)
MaxCurrent == 3
MaxPrevious == 3

T0 == DateTime(0)
T1 == DateTime(24)

CurrentLabs ==
    { Lab("sodium", "Sodium", Num(1400), "abnormal", T1),
      Lab("Creatinine [Mass/volume]", "Creatinine", Num(130), "normal", T1),
      Lab("Creatinine [Mass/volume]", "Creatinine", Num(125), "critical", T1),
      Lab("lactate", "Lactate", Num(125), "normal", T1),
      Lab("lactate", "Lactate", Str("N/A"), "abnormal", T1) }

PreviousLabs ==
    { Lab("sodium", "Sodium", Num(1400), "normal", T0),
      Lab("Creatinine [Mass/volume]", "Creatinine", Num(100), "normal", T0),
      Lab("lactate", "Lactate", Num(100), "normal", T0),
      Lab("Creatinine [Mass/volume]", "Creatinine", Num(0), "critical", T0),
      Lab("K", "Potassium", Num(70), "critical", T0) }

InitDeter ==
    /\ currentLabs \in SeqsUpTo(CurrentLabs, MaxCurrent)
    /\ previousLabs \in SeqsUpTo(PreviousLabs, MaxPrevious)
    /\ deterioration = Pending
    /\ IdleRisk
    /\ IdleObs
    /\ IdleTrend
    /\ IdleMeld
    /\ IdleOrgan
    /\ IdleNarrative
    /\ IdleDashboard
    /\ IdleSelector

DetectDeterioration ==
    /\ deterioration = Pending
    /\ deterioration' = Returned(detectDeterioration(currentLabs, previousLabs))
    /\ UNCHANGED <<currentLabs, previousLabs, riskVars, obsVars, trendVars, meldVars, organVars,
                   narrativeVars, dashboardVars, selectorVars>>

NextDeter == DetectDeterioration

SpecDeter == InitDeter /\ [][NextDeter]_vars

-----------------------------------------------------------------------------
(* RiskScoreCalculator.calculateMELD *)

\* calculateMELD's result: null or a number
Null      == [null |-> TRUE,  n |-> 0]
Number(n) == [null |-> FALSE, n |-> n]

\* Math.log(x) in ten-thousandths, x in tenths, for the values the specification
\* draws from (all of them >= 1.0 once floored).
Ln ==
    [x \in {10, 15, 20, 25, 30, 50, 100, 300} |->
        CASE x = 10 -> 0      [] x = 15 -> 4055   [] x = 20 -> 6931
          [] x = 25 -> 9163   [] x = 30 -> 10986  [] x = 50 -> 16094
          [] x = 100 -> 23026 [] x = 300 -> 34012]

\* The weighted sum is counted in units of 10^-6: the coefficients in
\* hundredths times the logarithms in ten-thousandths.
MeldUnit == 1000000

\* 3.78 * ln(max(b, 1)) + 11.2 * ln(max(i, 1)) + 9.57 * ln(max(c, 1)) + 6.43
MeldSum(bilirubinValue, inrValue, creatinineValue) ==
    378 * Ln[Max(bilirubinValue.n, 10)]
    + 1120 * Ln[Max(inrValue.n, 10)]
    + 957 * Ln[Max(creatinineValue.n, 10)]
    + 643 * (MeldUnit \div 100)

\* Mutant: the upper limit of 40 is missing.
MeldClampLowOnly(m) == Max(m, 6 * MeldUnit)

\* Math.min(Math.max(meld, 6), 40)
MeldClamp(m) == Min(Max(m, 6 * MeldUnit), 40 * MeldUnit)

\* Math.round of a non-negative number: the nearest integer, halves upwards
MathRound(m) == (2 * m + MeldUnit) \div (2 * MeldUnit)

\* Mutant: the values are not tested.
AnyNaNNever(bilirubinValue, inrValue, creatinineValue) == FALSE

\* isNaN(bilirubinValue) || isNaN(inrValue) || isNaN(creatinineValue)
AnyNaN(bilirubinValue, inrValue, creatinineValue) ==
    isNaN(bilirubinValue) \/ isNaN(inrValue) \/ isNaN(creatinineValue)

calculateMELD(ls) ==
    LET bilirubin  == FindIndex(ls, LAMBDA l : CodeHas(l, "bilirubin"))
        inr        == FindIndex(ls, LAMBDA l : CodeHas(l, "inr"))
        creatinine == FindIndex(ls, LAMBDA l : CodeHas(l, "creatinine"))
    IN  IF bilirubin = 0 \/ inr = 0 \/ creatinine = 0 THEN Null
        ELSE LET bilirubinValue  == parseFloat(ls[bilirubin].value)
                 inrValue        == parseFloat(ls[inr].value)
                 creatinineValue == parseFloat(ls[creatinine].value)
             IN  IF AnyNaN(bilirubinValue, inrValue, creatinineValue) THEN Null
                 ELSE Number(MathRound(MeldClamp(
                          MeldSum(bilirubinValue, inrValue, creatinineValue))))

(* The collections calculateMELD is applied to: up to MaxMeldLabs results    *)
(* drawn from MeldLabs.                                                      *)
MaxMeldLabs == 3

MeldLabs ==
    {Lab("bilirubin", "Bilirubin, Total", v, "normal", Recent) :
        v \in {Num(5), Num(10), Num(30), Num(300), Str("N/A")}}
    \cup
    {Lab("INR", "INR(PT)", v, "normal", Recent) :
        v \in {Num(10), Num(15), Num(20), Num(50), Str("2.5")}}
    \cup
    {Lab("creatinine", "Creatinine", v, "normal", Recent) :
        v \in {Num(5), Num(10), Num(15), Num(100), Str("N/A")}}
    \cup
    {Lab("Bilirubin/Creatinine", "Bilirubin/Creatinine Ratio", Num(20), "normal", Recent),
     Lab("sodium", "Sodium", Num(1400), "normal", Recent)}

InitMeld ==
    /\ meldLabs \in SeqsUpTo(MeldLabs, MaxMeldLabs)
    /\ meld = Pending
    /\ IdleRisk
    /\ IdleObs
    /\ IdleTrend
    /\ IdleDeter
    /\ IdleOrgan
    /\ IdleNarrative
    /\ IdleDashboard
    /\ IdleSelector

CalculateMELD ==
    /\ meld = Pending
    /\ meld' = Returned(calculateMELD(meldLabs))
    /\ UNCHANGED <<meldLabs, riskVars, obsVars, trendVars, deterVars, organVars,
                   narrativeVars, dashboardVars, selectorVars>>

NextMeld == CalculateMELD

SpecMeld == InitMeld /\ [][NextMeld]_vars

-----------------------------------------------------------------------------
(* RiskScoreCalculator.calculateOrganSystemRisks *)

\* The substrings that put a result into an organ system.
RenalKeys   == {"creatinine", "bun", "egfr"}
CardiacKeys == {"troponin", "bnp", "ck"}
HepaticKeys == {"alt", "ast", "bilirubin", "albumin"}

\* labs.filter(l => l.code.toLowerCase().includes(k1) || ...)
SystemLabs(ls, keys) == Filter(ls, LAMBDA l : \E k \in keys : CodeHas(l, k))

\* labs.filter(l => l.status !== 'normal').length
OrganAbnormalCount(ls) == Len(Filter(ls, LAMBDA l : l.status # "normal"))

\* labs.filter(l => l.status === 'critical').length
OrganCriticalCount(ls) == Len(Filter(ls, LAMBDA l : l.status = "critical"))

\* Mutant: the abnormal count is looked at first.
OrganTrendAbnormalFirst(criticalCount, abnormalCount) ==
    IF abnormalCount > 0 THEN "stable"
    ELSE IF criticalCount > 0 THEN "worsening"
    ELSE "improving"

OrganTrend(criticalCount, abnormalCount) ==
    IF criticalCount > 0 THEN "worsening"
    ELSE IF abnormalCount > 0 THEN "stable"
    ELSE "improving"

\* The body the three assess functions share, with their weights.
AssessRisk(system, wA, wC, ls) ==
    LET abnormalCount == OrganAbnormalCount(ls)
        criticalCount == OrganCriticalCount(ls)
    IN  [system  |-> system,
         score   |-> Min((abnormalCount * wA) + (criticalCount * wC), 100),
         trend   |-> OrganTrend(criticalCount, abnormalCount),
         markers |-> [i \in 1..Len(ls) |-> ls[i].name]]

assessRenalRisk(ls)   == AssessRisk("Renal", 10, 20, ls)
assessCardiacRisk(ls) == AssessRisk("Cardiac", 15, 25, ls)
assessHepaticRisk(ls) == AssessRisk("Hepatic", 8, 18, ls)

\* Mutant: the system is pushed whether or not a result matched.
PushAlways(systemLabs, risk) == <<risk>>

\* if (systemLabs.length > 0) systems.push(risk)
PushIfAny(systemLabs, risk) == IF Len(systemLabs) > 0 THEN <<risk>> ELSE <<>>

calculateOrganSystemRisks(ls) ==
    LET renalLabs   == SystemLabs(ls, RenalKeys)
        cardiacLabs == SystemLabs(ls, CardiacKeys)
        hepaticLabs == SystemLabs(ls, HepaticKeys)
    IN  PushIfAny(renalLabs, assessRenalRisk(renalLabs))
        \o PushIfAny(cardiacLabs, assessCardiacRisk(cardiacLabs))
        \o PushIfAny(hepaticLabs, assessHepaticRisk(hepaticLabs))

(* The collections calculateOrganSystemRisks is applied to: up to            *)
(* MaxOrganLabs results drawn from OrganLabs, every code with every status.  *)
MaxOrganLabs == 3

OrganCodes ==
    { <<"creatinine", "Creatinine">>, <<"BUN", "Urea Nitrogen">>,
      <<"Troponin I", "Troponin I">>, <<"CK-MB", "Creatine Kinase MB">>,
      <<"ALT", "Alanine Aminotransferase">>,
      <<"Albumin/Creatinine", "Albumin/Creatinine Ratio">>,
      <<"sodium", "Sodium">> }

OrganLabs ==
    {Lab(c[1], c[2], Num(10), st, Recent) :
        c \in OrganCodes, st \in {"normal", "abnormal", "critical"}}

InitOrgan ==
    /\ organLabs \in SeqsUpTo(OrganLabs, MaxOrganLabs)
    /\ organRisks = Pending
    /\ IdleRisk
    /\ IdleObs
    /\ IdleTrend
    /\ IdleDeter
    /\ IdleMeld
    /\ IdleNarrative
    /\ IdleDashboard
    /\ IdleSelector

CalculateOrganSystemRisks ==
    /\ organRisks = Pending
    /\ organRisks' = Returned(calculateOrganSystemRisks(organLabs))
    /\ UNCHANGED <<organLabs, riskVars, obsVars, trendVars, deterVars, meldVars,
                   narrativeVars, dashboardVars, selectorVars>>

NextOrgan == CalculateOrganSystemRisks

SpecOrgan == InitOrgan /\ [][NextOrgan]_vars

-----------------------------------------------------------------------------
(* LabProcessor.getLabNarrative *)

\* String(n) of a number given in tenths: "14", "10.3", "-0.5"
NumberToString(n) ==
    (IF n < 0 THEN "-" ELSE "")
    \o ToString(Abs(n) \div 10)
    \o (IF Abs(n) % 10 = 0 THEN "" ELSE "." \o ToString(Abs(n) % 10))

\* `${lab.value}`
ValueToString(v) == IF v.t = "number" THEN NumberToString(v.n) ELSE v.s

\* Math.abs(q).toFixed(1) of a quotient: one decimal, the nearest, halves
\* upwards; "Infinity" for x/0 and "NaN" for 0/0.
AbsToFixed1(q) ==
    IF q.den = 0 THEN (IF q.num = 0 THEN "NaN" ELSE "Infinity")
    ELSE LET tenths == (20 * Abs(q.num) + Abs(q.den)) \div (2 * Abs(q.den))
         IN  ToString(tenths \div 10) \o "." \o ToString(tenths % 10)

\* !x for an optional number: undefined, 0 and NaN are falsy
NotDelta(delta) == ~delta.def \/ delta.v = 0

NotDeltaPercent(deltaPercent) == deltaPercent = <<>> \/ deltaPercent[1].num = 0

\* Mutant: only an absent delta or deltaPercent ends the sentence early.
TrendIsMissingOnlyUndefined(trend) == ~trend.delta.def \/ trend.deltaPercent = <<>>

\* !trend.delta || !trend.deltaPercent
TrendIsMissing(trend) == NotDelta(trend.delta) \/ NotDeltaPercent(trend.deltaPercent)

getTrendNarrative(trend) ==
    IF TrendIsMissing(trend) THEN ""
    ELSE LET direction == IF trend.trend = "rising" THEN "increased"
                          ELSE IF trend.trend = "falling" THEN "decreased"
                          ELSE "remained stable"
             amount == AbsToFixed1(trend.deltaPercent[1])
         IN  IF trend.trend = "stable"
             THEN "The value has remained relatively stable."
             ELSE "The value has " \o direction \o " by " \o amount
                      \o "% since the last test."

getStatusNarrative(lab) ==
    CASE lab.status = "critical" ->
             "This is a CRITICAL value requiring immediate attention."
      [] lab.status = "abnormal" -> "This value is outside the normal range."
      [] lab.status = "normal" -> "This value is within normal limits."
      [] OTHER -> ""

\* The context sentences, in the order Object.entries visits them.
contexts ==
    << [key |-> "Potassium",  text |-> "Important for heart and muscle function."],
       [key |-> "Creatinine", text |-> "Indicates kidney function."],
       [key |-> "Hemoglobin", text |-> "Carries oxygen in red blood cells."],
       [key |-> "Glucose",    text |-> "Blood sugar level."],
       [key |-> "Sodium",     text |-> "Maintains fluid balance."],
       [key |-> "Platelet",   text |-> "Essential for blood clotting."] >>

getContextNarrative(lab) ==
    LET context == FirstOf({k \in 1..Len(contexts) :
                               Includes(ToLowerCase(lab.name), ToLowerCase(contexts[k].key))})
    IN  IF context # 0 THEN contexts[context].text ELSE ""

\* String.prototype.trim, for the blanks the template puts in
RECURSIVE TrimEnd(_)
TrimEnd(s) ==
    IF Len(s) > 0 /\ SubSeq(s, Len(s), Len(s)) = " "
    THEN TrimEnd(SubSeq(s, 1, Len(s) - 1))
    ELSE s

RECURSIVE TrimStart(_)
TrimStart(s) ==
    IF Len(s) > 0 /\ SubSeq(s, 1, 1) = " " THEN TrimStart(SubSeq(s, 2, Len(s))) ELSE s

Trim(s) == TrimStart(TrimEnd(s))

\* trend is Returned(t), or Pending when the argument is omitted
getLabNarrative(lab, trend) ==
    LET trendText   == IF trend # Pending THEN getTrendNarrative(trend[1]) ELSE ""
        statusText  == getStatusNarrative(lab)
        contextText == getContextNarrative(lab)
    IN  Trim(lab.name \o ": " \o ValueToString(lab.value) \o " " \o lab.unit \o ". "
             \o statusText \o " " \o trendText \o " " \o contextText)

(* The arguments getLabNarrative is applied to: a result drawn from          *)
(* NarrativeLabs and no trend or one of the trends processLabTrends returns  *)
(* for the collections of up to MaxNarrativeSeries results of TrendLabs.     *)
MaxNarrativeSeries == 2

NarrativeLabs ==
    {[name |-> n, value |-> v, unit |-> "mmol/L", status |-> st] :
        n \in {"Sodium", "Lactate"}, v \in {Num(1400), Num(25), Str("N/A")},
        st \in {"normal", "abnormal", "critical"}}

NarrativeTrends ==
    UNION {{processLabTrends(s)[i] : i \in 1..Len(processLabTrends(s))} :
              s \in SeqsUpTo(TrendLabs, MaxNarrativeSeries)}

InitNarrative ==
    /\ narrativeLab \in NarrativeLabs
    /\ narrativeTrend \in {Pending} \cup {Returned(t) : t \in NarrativeTrends}
    /\ narrative = Pending
    /\ IdleRisk
    /\ IdleObs
    /\ IdleTrend
    /\ IdleDeter
    /\ IdleMeld
    /\ IdleOrgan
    /\ IdleDashboard
    /\ IdleSelector

GetLabNarrative ==
    /\ narrative = Pending
    /\ narrative' = Returned(getLabNarrative(narrativeLab, narrativeTrend))
    /\ UNCHANGED <<narrativeLab, narrativeTrend, riskVars, obsVars, trendVars,
                   deterVars, meldVars, organVars, dashboardVars, selectorVars>>

NextNarrative == GetLabNarrative

SpecNarrative == InitNarrative /\ [][NextNarrative]_vars

-----------------------------------------------------------------------------
(* PatientSelector.selectPatient *)

\* Mutant: the selected id is not taken out of the stored list.
OtherIdsAll(recent, patientId) == recent

\* recent.filter(id => id !== patientId)
RECURSIVE OtherIds(_, _)
OtherIds(recent, patientId) ==
    IF recent = <<>> THEN <<>>
    ELSE (IF Head(recent) # patientId THEN <<Head(recent)>> ELSE <<>>)
            \o OtherIds(Tail(recent), patientId)

\* list.slice(0, 5)
RecentLimit == 5

\* Mutant: the list is never cut.
SliceAll(list) == list

Slice(list) == SubSeq(list, 1, Min(Len(list), RecentLimit))

\* [patient.id, ...recent.filter(id => id !== patient.id)].slice(0, 5)
Updated(patientId, recent) == Slice(<<patientId>> \o OtherIds(recent, patientId))

(* The selector starts closed; localStorage holds a duplicate-free list of  *)
(* up to MaxStored ids left by earlier sessions.  The user opens and closes  *)
(* the modal and picks patients in it, up to MaxSelections times;            *)
(* reportedIds are the ids handed to onPatientSelect, in call order.         *)
PatientIds == {"10000032", "10001217", "10002428", "10003400", "10004235", "10005817"}

StoredIds == {"10004235", "10005817"}

MaxStored == 2

MaxSelections == 4

HasNoDuplicates(list) == \A i, j \in 1..Len(list) : list[i] = list[j] => i = j

InitSelector ==
    /\ recentPatients \in {l \in SeqsUpTo(StoredIds, MaxStored) : HasNoDuplicates(l)}
    /\ isOpen = FALSE
    /\ reportedIds = <<>>
    /\ IdleRisk
    /\ IdleObs
    /\ IdleTrend
    /\ IdleDeter
    /\ IdleMeld
    /\ IdleOrgan
    /\ IdleNarrative
    /\ IdleDashboard

\* onClick={() => setIsOpen(!isOpen)}
ToggleOpen ==
    /\ isOpen' = ~isOpen
    /\ UNCHANGED <<recentPatients, reportedIds, riskVars, obsVars, trendVars, deterVars,
                   meldVars, organVars, narrativeVars, dashboardVars>>

\* The rows of the modal are rendered, and can be clicked, while it is open.
SelectPatient ==
    /\ isOpen
    /\ Len(reportedIds) < MaxSelections
    /\ \E patientId \in PatientIds :
          /\ reportedIds' = Append(reportedIds, patientId)
          /\ isOpen' = FALSE
          /\ recentPatients' = Updated(patientId, recentPatients)
    /\ UNCHANGED <<riskVars, obsVars, trendVars, deterVars, meldVars, organVars,
                   narrativeVars, dashboardVars>>

NextSelector == ToggleOpen \/ SelectPatient

SpecSelector == InitSelector /\ [][NextSelector]_vars

-----------------------------------------------------------------------------
(* LabDashboard.fetchData *)

\* A response as the dashboard shows it: the patient it is about and the
\* fetchData call, numbered by start, that obtained it.
DataOf(patientId, call) == [patientId |-> patientId, call |-> call]

\* '28dcf33b-0c52-587f-83ad-2a3270976719', the patient getPatient falls back to
DEFAULT_PATIENT_ID == "28dcf33b"

\* Mutant: getPatient always answers for the patient asked for.
GetPatientAsAsked(patientId) == {patientId}

\* FHIRClient.getPatient: the patient asked for, or the demo patient when the
\* request fails
GetPatient(patientId) == {patientId, DEFAULT_PATIENT_ID}

\* The patients the dashboard is opened for and switched to; the first is the
\* one it shows when no initialPatientId is given.
DashboardPatientIds == {"77e10fd0", "10000032"}

MaxCalls == 3

RemoveAt(seq, i) == SubSeq(seq, 1, i - 1) \o SubSeq(seq, i + 1, Len(seq))

\* The call is suspended at 'await getPatient' once it has set its flag.
StartCall(patientId, isRefresh) ==
    /\ started < MaxCalls
    /\ started' = started + 1
    /\ calls' = Append(calls, [patientId |-> patientId, call |-> started + 1,
                               pc |-> "getPatient"])
    /\ IF isRefresh THEN refreshing' = TRUE /\ UNCHANGED loading
                    ELSE loading' = TRUE /\ UNCHANGED refreshing

InitDashboard ==
    /\ currentPatientId \in DashboardPatientIds
    /\ patient = NoData
    /\ dashboardLabResults = NoData
    /\ dashboardLabTrends = NoData
    /\ diagnosticReports = NoData
    /\ loading = TRUE
    /\ refreshing = FALSE
    /\ calls = <<>>
    /\ started = 0
    /\ IdleRisk
    /\ IdleObs
    /\ IdleTrend
    /\ IdleDeter
    /\ IdleMeld
    /\ IdleOrgan
    /\ IdleNarrative
    /\ IdleSelector

\* useEffect(() => { fetchData(currentPatientId) }, []): once, on mount
InitialLoad ==
    /\ started = 0
    /\ StartCall(currentPatientId, FALSE)
    /\ UNCHANGED <<currentPatientId, patient, dashboardLabResults, dashboardLabTrends,
                   diagnosticReports, riskVars, obsVars, trendVars, deterVars, meldVars,
                   organVars, narrativeVars, selectorVars>>

\* The Refresh Data button: fetchData(currentPatientId, true), disabled
\* while refreshing
Refresh ==
    /\ started > 0
    /\ ~refreshing
    /\ StartCall(currentPatientId, TRUE)
    /\ UNCHANGED <<currentPatientId, patient, dashboardLabResults, dashboardLabTrends,
                   diagnosticReports, riskVars, obsVars, trendVars, deterVars, meldVars,
                   organVars, narrativeVars, selectorVars>>

HandlePatientChange ==
    /\ started > 0
    /\ \E newPatientId \in DashboardPatientIds :
          /\ currentPatientId' = newPatientId
          /\ StartCall(newPatientId, FALSE)
    /\ UNCHANGED <<patient, dashboardLabResults, dashboardLabTrends,
                   diagnosticReports, riskVars, obsVars, trendVars, deterVars, meldVars,
                   organVars, narrativeVars, selectorVars>>

\* getPatient answers: setPatient, then 'await getLabResults'
AfterGetPatient ==
    /\ \E i \in 1..Len(calls) :
          /\ calls[i].pc = "getPatient"
          /\ \E patientData \in GetPatient(calls[i].patientId) :
                patient' = DataOf(patientData, calls[i].call)
          /\ calls' = [calls EXCEPT ![i].pc = "getLabResults"]
    /\ UNCHANGED <<currentPatientId, dashboardLabResults, dashboardLabTrends,
                   diagnosticReports, loading, refreshing, started, riskVars, obsVars,
                   trendVars, deterVars, meldVars, organVars, narrativeVars,
                   selectorVars>>

\* getLabResults answers: setLabResults, setLabTrends, then
\* 'await getDiagnosticReports'
AfterGetLabResults ==
    /\ \E i \in 1..Len(calls) :
          /\ calls[i].pc = "getLabResults"
          /\ dashboardLabResults' = DataOf(calls[i].patientId, calls[i].call)
          /\ dashboardLabTrends' = DataOf(calls[i].patientId, calls[i].call)
          /\ calls' = [calls EXCEPT ![i].pc = "getDiagnosticReports"]
    /\ UNCHANGED <<currentPatientId, patient, diagnosticReports, loading, refreshing,
                   started, riskVars, obsVars, trendVars, deterVars, meldVars,
                   organVars, narrativeVars, selectorVars>>

\* getDiagnosticReports answers: setDiagnosticReports, and the finally block
AfterGetDiagnosticReports ==
    /\ \E i \in 1..Len(calls) :
          /\ calls[i].pc = "getDiagnosticReports"
          /\ diagnosticReports' = DataOf(calls[i].patientId, calls[i].call)
          /\ calls' = RemoveAt(calls, i)
    /\ loading' = FALSE
    /\ refreshing' = FALSE
    /\ UNCHANGED <<currentPatientId, patient, dashboardLabResults, dashboardLabTrends,
                   started, riskVars, obsVars, trendVars, deterVars, meldVars,
                   organVars, narrativeVars, selectorVars>>

NextDashboard ==
    \/ InitialLoad
    \/ Refresh
    \/ HandlePatientChange
    \/ AfterGetPatient
    \/ AfterGetLabResults
    \/ AfterGetDiagnosticReports

SpecDashboard == InitDashboard /\ [][NextDashboard]_vars

-----------------------------------------------------------------------------
(* The derivations invoked side by side, as a refresh cycle does *)

\* groupLabsByType: one new array per name, holding the records of the input
GroupArrays(results) ==
    [labName \in {results[i].name : i \in 1..Len(results)} |-> GroupOf(results, labName)]

\* The arrays processLabTrends works with: the caller's and the groups'
ArraysAfterGrouping(results) == [input |-> results, groups |-> GroupArrays(results)]

\* Mutant: the caller's array is sorted as well.
SortGroupsAndInput(arrays) ==
    [input |-> SortByDateDesc(arrays.input),
     groups |-> [labName \in DOMAIN arrays.groups |-> SortByDateDesc(arrays.groups[labName])]]

\* results.sort(...), in place, on the array of every group
SortGroups(arrays) ==
    [arrays EXCEPT !.groups = [labName \in DOMAIN @ |-> SortByDateDesc(@[labName])]]

\* The caller's array once processLabTrends has returned
InputAfterProcessLabTrends(results) == SortGroups(ArraysAfterGrouping(results)).input

\* Mutant: the list of trends lives on from one call to the next.
TrendsKept(earlier) == IF earlier = Pending THEN <<>> ELSE earlier[1]

\* const trends: LabTrend[] = []
TrendsStart(earlier) == <<>>

(* One collection of up to MaxCallLabs results of CallLabs is handed to     *)
(* every derivation; detectDeterioration gets it as the current results,    *)
(* with no previous results or CallBaseline.  The clock starts 48 hours     *)
(* after time 0 and advances MaxCallTicks hours.                             *)
MaxCallLabs == 2
MaxCallTicks == 1

CallLabs ==
    { Lab("creatinine", "Creatinine", Num(30), "critical", Recent),
      Lab("creatinine", "Creatinine", Str("N/A"), "critical", Recent),
      Lab("creatinine", "Creatinine", Num(10), "normal", Boundary),
      Lab("lactate", "Lactate", Str("N/A"), "abnormal", Recent),
      Lab("WBC", "White Blood Cells", Num(250), "critical", Boundary),
      Lab("INR", "INR(PT)", Str("pending"), "normal", Recent) }

CallBaseline ==
    << Lab("creatinine", "Creatinine", Num(10), "normal", Old),
       Lab("lactate", "Lactate", Num(10), "normal", Old) >>

CallNarrativeLab ==
    [name |-> "Lactate", value |-> Str("N/A"), unit |-> "mmol/L", status |-> "abnormal"]

InitCalls ==
    /\ now = 2 * HoursPerDay
    /\ \E input \in SeqsUpTo(CallLabs, MaxCallLabs) :
          /\ labs = input
          /\ labResults = input
          /\ currentLabs = input
          /\ meldLabs = input
          /\ organLabs = input
    /\ previousLabs \in {<<>>, CallBaseline}
    /\ narrativeLab = CallNarrativeLab
    /\ narrativeTrend = Pending
    /\ riskScore = Pending
    /\ labTrends = Pending
    /\ deterioration = Pending
    /\ meld = Pending
    /\ organRisks = Pending
    /\ narrative = Pending
    /\ IdleObs
    /\ IdleDashboard
    /\ IdleSelector

\* Time passes between two invocations.
Tick ==
    /\ now < 2 * HoursPerDay + MaxCallTicks
    /\ now' = now + 1
    /\ UNCHANGED <<labs, riskScore, obsVars, trendVars, deterVars, meldVars, organVars,
                   narrativeVars, dashboardVars, selectorVars>>

CallCalculatePatientRisk ==
    /\ riskScore' = Returned(calculatePatientRisk(labs, now))
    /\ UNCHANGED <<now, labs, obsVars, trendVars, deterVars, meldVars, organVars,
                   narrativeVars, dashboardVars, selectorVars>>

CallProcessLabTrends ==
    /\ labTrends' = Returned(TrendsStart(labTrends) \o processLabTrends(labResults))
    /\ labResults' = InputAfterProcessLabTrends(labResults)
    /\ UNCHANGED <<riskVars, obsVars, deterVars, meldVars, organVars, narrativeVars,
                   dashboardVars, selectorVars>>

CallDetectDeterioration ==
    /\ deterioration' = Returned(detectDeterioration(currentLabs, previousLabs))
    /\ UNCHANGED <<currentLabs, previousLabs, riskVars, obsVars, trendVars, meldVars,
                   organVars, narrativeVars, dashboardVars, selectorVars>>

CallCalculateMELD ==
    /\ meld' = Returned(calculateMELD(meldLabs))
    /\ UNCHANGED <<meldLabs, riskVars, obsVars, trendVars, deterVars, organVars,
                   narrativeVars, dashboardVars, selectorVars>>

CallCalculateOrganSystemRisks ==
    /\ organRisks' = Returned(calculateOrganSystemRisks(organLabs))
    /\ UNCHANGED <<organLabs, riskVars, obsVars, trendVars, deterVars, meldVars,
                   narrativeVars, dashboardVars, selectorVars>>

\* The narrative of a result, without a trend or with the first trend
\* processLabTrends has returned.
CallGetLabNarrative ==
    /\ \E trend \in {Pending} \cup
                    (IF labTrends # Pending /\ labTrends[1] # <<>>
                     THEN {Returned(labTrends[1][1])} ELSE {}) :
          /\ narrativeTrend' = trend
          /\ narrative' = Returned(getLabNarrative(narrativeLab, trend))
    /\ UNCHANGED <<narrativeLab, riskVars, obsVars, trendVars, deterVars, meldVars,
                   organVars, dashboardVars, selectorVars>>

NextCalls ==
    \/ Tick
    \/ CallCalculatePatientRisk
    \/ CallProcessLabTrends
    \/ CallDetectDeterioration
    \/ CallCalculateMELD
    \/ CallCalculateOrganSystemRisks
    \/ CallGetLabNarrative

SpecCalls == InitCalls /\ [][NextCalls]_vars

-----------------------------------------------------------------------------
(* Claims about calculatePatientRisk, under SpecRisk *)

\* The results of labs that are at most 48 hours old at the clock's time (a
\* timestamp after the clock's counts as such), counted by status.
WindowCount(st) ==
    Cardinality({i \in 1..Len(labs) :
        /\ labs[i].status = st
        /\ labs[i].effectiveDateTime.valid
        /\ now - labs[i].effectiveDateTime.t <= 48})

MarkerPoints ==
    [m \in {"AKI Risk", "Sepsis Risk", "Hepatic Dysfunction", "Coagulopathy"} |->
        CASE m = "AKI Risk" -> 15 [] m = "Sepsis Risk" -> 20
          [] m = "Hepatic Dysfunction" -> 10 [] m = "Coagulopathy" -> 15]

RECURSIVE SumPoints(_)
SumPoints(S) ==
    IF S = {} THEN 0
    ELSE LET m == CHOOSE x \in S : TRUE IN MarkerPoints[m] + SumPoints(S \ {m})

\* The factor of that name in a RiskScore, as a set (empty or one factor).
FactorsNamed(r, name) == {r.factors[i] : i \in {j \in 1..Len(r.factors) : r.factors[j].name = name}}

\* The points of the marker patterns a RiskScore reports as triggered.
TriggeredPoints(r) ==
    LET fs == FactorsNamed(r, "High-Risk Markers") IN
    IF fs = {} THEN 0
    ELSE LET f == CHOOSE x \in fs : TRUE IN
         SumPoints({m \in DOMAIN MarkerPoints : Includes(f.value, m)})

\* C1: score = min(T, 100) with T = min(15c, 45) + min(3a, 30) + the points of
\* the triggered marker patterns, c and a the numbers of critical and abnormal
\* results in the recency window; 2 critical + 1 abnormal and no marker give
\* score 33 and level low.
C1_ScoreIsClampedSum ==
    LET c == WindowCount("critical")
        a == WindowCount("abnormal")
        m == TriggeredPoints(riskScore)
    IN  /\ riskScore.score = Min(Min(15 * c, 45) + Min(3 * a, 30) + m, 100)
        /\ (c = 2 /\ a = 1 /\ m = 0) =>
               (riskScore.score = 33 /\ riskScore.level = "low")

C1_Witness ==
    /\ WindowCount("critical") = 2
    /\ WindowCount("abnormal") = 1
    /\ TriggeredPoints(riskScore) = 0
    /\ riskScore.score = 33

\* C2: the score is always in [0,100], and from one computation to the next
\* it does not decrease when the numbers of critical and of abnormal results
\* in the window do not decrease and the marker contribution is the same.
C2_BoundedAndMonotone ==
    /\ [](riskScore.score \in 0..100)
    /\ [][(/\ WindowCount("critical")' >= WindowCount("critical")
           /\ WindowCount("abnormal")' >= WindowCount("abnormal")
           /\ TriggeredPoints(riskScore)' = TriggeredPoints(riskScore))
          => riskScore'.score >= riskScore.score]_vars

\* The clamp is active: one more critical result on top of a score of 100.
C2_Witness ==
    /\ riskScore.score = 100
    /\ WindowCount("critical") >= 4
    /\ WindowCount("abnormal") >= 10

\* C3: the level is the one the returned (clamped) score gives: critical iff
\* score >= 80, high iff 60 <= score < 80, moderate iff 40 <= score < 60, low
\* iff score < 40.
C3_LevelFromReturnedScore ==
    LET sc == riskScore.score
        lv == riskScore.level
    IN  /\ lv \in {"critical", "high", "moderate", "low"}
        /\ lv = "critical" <=> sc >= 80
        /\ lv = "high" <=> (60 <= sc /\ sc < 80)
        /\ lv = "moderate" <=> (40 <= sc /\ sc < 60)
        /\ lv = "low" <=> sc < 40

ContributionSum(r) == SumSeq([i \in 1..Len(r.factors) |-> r.factors[i].contribution])

\* The total was above 100, so level and score come from different numbers.
C3_Witness ==
    /\ ContributionSum(riskScore) > 100
    /\ riskScore.score = 100
    /\ riskScore.level = "critical"

\* C4: every listed factor has a contribution > 0; each of the three factors
\* is listed (once) iff its contribution is nonzero; the score is the sum of
\* the listed contributions, clamped to 100.
C4_FactorsListedIffNonzero ==
    LET fs == riskScore.factors
        crit == Min(15 * WindowCount("critical"), 45)
        abn == Min(3 * WindowCount("abnormal"), 30)
        mark == checkHighRiskMarkers(RecentLabs(labs, now)).score
        Listed(name, pts) ==
            IF pts # 0
            THEN /\ Cardinality({i \in 1..Len(fs) : fs[i].name = name}) = 1
                 /\ \A f \in FactorsNamed(riskScore, name) : f.contribution = pts
            ELSE FactorsNamed(riskScore, name) = {}
    IN  /\ \A i \in 1..Len(fs) :
              /\ fs[i].contribution > 0
              /\ fs[i].name \in {"Critical Values", "Abnormal Values", "High-Risk Markers"}
        /\ Listed("Critical Values", crit)
        /\ Listed("Abnormal Values", abn)
        /\ Listed("High-Risk Markers", mark)
        /\ riskScore.score = Min(ContributionSum(riskScore), 100)

\* Two factors listed and one left out.
C4_Witness ==
    /\ Len(riskScore.factors) = 2
    /\ FactorsNamed(riskScore, "Abnormal Values") = {}
    /\ WindowCount("abnormal") = 0
    /\ riskScore.score > 0

-----------------------------------------------------------------------------
(* Claims about transformObservation, under SpecClassify *)

Classified == labResult # Pending
ObsStatus  == labResult[1].status
HasHigh    == obs.ranges # <<>> /\ obs.ranges[1].high.def
HasLow     == obs.ranges # <<>> /\ obs.ranges[1].low.def
ObsHigh    == obs.ranges[1].high.v
ObsLow     == obs.ranges[1].low.v
ObsValue   == obs.value.v

\* The upper-bound rule fired.
AboveHigh == HasHigh /\ ObsValue > ObsHigh

\* The name contains a key of the table a bound of which the value is outside.
OutsideSomeKey ==
    \E k \in 1..Len(criticalRanges) :
        LET e == criticalRanges[k] IN
        /\ Includes(ToLowerCase(labResult[1].name), ToLowerCase(e.key))
        /\ \/ (e.high.def /\ ObsValue > e.high.v)
           \/ (e.low.def /\ ObsValue < e.low.v)

\* The status the same observation gets with the upper bound taken away.
StatusWithoutHigh ==
    transformObservation(
        [obs EXCEPT !.ranges = <<Range(obs.ranges[1].low, Undefined)>>]).status

\* C5 as stated: critical for every v > high * 1.5, abnormal for every v with
\* high < v <= high * 1.5, no escalation by the upper bound for v <= high.
C5_AsStated ==
    (Classified /\ obs.value.def /\ HasHigh) =>
        /\ (2 * ObsValue > 3 * ObsHigh) => ObsStatus = "critical"
        /\ (ObsValue > ObsHigh /\ 2 * ObsValue <= 3 * ObsHigh) => ObsStatus = "abnormal"
        /\ (ObsValue <= ObsHigh) => ObsStatus = StatusWithoutHigh

\* C5, amended: for v > high the status is critical when v > high * 1.5 and
\* otherwise abnormal, or critical only if v is also outside an absolute
\* bound of a table key the name contains; for v <= high the upper bound does
\* not change the status.
C5_UpperBoundRule ==
    (Classified /\ obs.value.def /\ HasHigh) =>
        /\ (ObsValue > ObsHigh /\ 2 * ObsValue > 3 * ObsHigh) => ObsStatus = "critical"
        /\ (ObsValue > ObsHigh /\ 2 * ObsValue <= 3 * ObsHigh) =>
               \/ ObsStatus = "abnormal"
               \/ (ObsStatus = "critical" /\ OutsideSomeKey)
        /\ (ObsValue <= ObsHigh) => ObsStatus = StatusWithoutHigh

\* Between high and high * 1.5, and critical by the table.
C5_Witness ==
    /\ Classified /\ obs.value.def /\ HasHigh
    /\ ObsValue > ObsHigh /\ 2 * ObsValue <= 3 * ObsHigh
    /\ ObsStatus = "critical"

\* C6 as stated: when the upper-bound rule has not fired, critical for every
\* v < low * 0.5 and abnormal for every v with low * 0.5 <= v < low.
C6_AsStated ==
    (Classified /\ obs.value.def /\ HasLow /\ ~AboveHigh) =>
        /\ (2 * ObsValue < ObsLow) => ObsStatus = "critical"
        /\ (2 * ObsValue >= ObsLow /\ ObsValue < ObsLow) => ObsStatus = "abnormal"

\* C6, amended: when the upper-bound rule has not fired and v < low, the
\* status is critical when v < low * 0.5 and otherwise abnormal, or critical
\* only if v is also outside an absolute bound of a table key the name
\* contains.
C6_LowerBoundRule ==
    (Classified /\ obs.value.def /\ HasLow /\ ~AboveHigh) =>
        /\ (ObsValue < ObsLow /\ 2 * ObsValue < ObsLow) => ObsStatus = "critical"
        /\ (ObsValue < ObsLow /\ 2 * ObsValue >= ObsLow) =>
               \/ ObsStatus = "abnormal"
               \/ (ObsStatus = "critical" /\ OutsideSomeKey)

\* Below low but not below low * 0.5, with an upper bound that did not fire.
C6_Witness ==
    /\ Classified /\ obs.value.def /\ HasLow /\ HasHigh /\ ~AboveHigh
    /\ ObsValue < ObsLow /\ 2 * ObsValue >= ObsLow
    /\ ObsStatus = "abnormal"

StatusRank(st) == CASE st = "normal" -> 0 [] st = "abnormal" -> 1 [] st = "critical" -> 2

\* C7: a value outside a bound of any table key the name contains is
\* classified critical, and the table check never lowers the status the
\* range rule gave.
C7_TableForcesCritical ==
    (Classified /\ obs.value.def) =>
        /\ OutsideSomeKey => ObsStatus = "critical"
        /\ StatusRank(ObsStatus) >= StatusRank(RangeStatus(obs.value, obs.ranges))

NameHasNoKey ==
    \A k \in 1..Len(criticalRanges) :
        ~Includes(ToLowerCase(labResult[1].name), ToLowerCase(criticalRanges[k].key))

\* C8: normal without a numeric value, normal without a reference range when
\* the name contains no key of the table, and the call returns a status for
\* every observation.
C8_NormalByDefault ==
    /\ ~Classified => ENABLED TransformObservation
    /\ Classified =>
        /\ ObsStatus \in {"normal", "abnormal", "critical"}
        /\ ~obs.value.def => ObsStatus = "normal"
        /\ (obs.ranges = <<>> /\ NameHasNoKey) => ObsStatus = "normal"

\* No numeric value, although the name is in the table and a range is given.
C8_Witness ==
    /\ Classified
    /\ ~obs.value.def
    /\ obs.ranges # <<>>
    /\ ~NameHasNoKey
    /\ ObsStatus = "normal"

-----------------------------------------------------------------------------
(* Claims about processLabTrends, under SpecTrend *)

TrendsReturned == labTrends # Pending
Trends == labTrends[1]

Sodium(v, t) == Lab("2951-2", "Sodium", Num(v), "normal", DateTime(t))

\* C9: trend = stable iff the previous value is absent or |deltaPercent| < 5;
\* otherwise rising if delta > 0 and falling if not, with delta = current -
\* previous and deltaPercent = delta / previous * 100 (no finite percentage
\* when previous = 0).  10.0 then 10.3 is stable, 10.0 then 10.6 is rising.
C9_TrendFromDeltaPercent ==
    TrendsReturned =>
        /\ \A i \in 1..Len(Trends) :
              LET tr == Trends[i]
                  d == tr.currentValue - tr.previousValue.v
                  small == /\ tr.previousValue.v # 0
                           /\ 100 * Abs(d) < 5 * Abs(tr.previousValue.v)
              IN  IF ~tr.previousValue.def
                  THEN tr.trend = "stable" /\ ~tr.delta.def /\ tr.deltaPercent = <<>>
                  ELSE /\ tr.delta = Some(d)
                       /\ Len(tr.deltaPercent) = 1
                       /\ tr.deltaPercent[1].num * tr.previousValue.v
                              = 100 * d * tr.deltaPercent[1].den
                       /\ tr.deltaPercent[1].den = 0 <=> tr.previousValue.v = 0
                       /\ tr.trend = "stable" <=> small
                       /\ ~small => tr.trend = (IF d > 0 THEN "rising" ELSE "falling")
        /\ labResults = <<Sodium(100, 1), Sodium(103, 2)>> =>
              (Len(Trends) = 1 /\ Trends[1].trend = "stable")
        /\ labResults = <<Sodium(100, 1), Sodium(106, 2)>> =>
              (Len(Trends) = 1 /\ Trends[1].trend = "rising")

C9_Witness ==
    /\ TrendsReturned
    /\ labResults = <<Sodium(100, 1), Sodium(106, 2)>>
    /\ Trends[1].trend = "rising"
    /\ Trends[1].previousValue = Some(100)

-----------------------------------------------------------------------------
(* Claims about detectDeterioration, under SpecDeter *)

Detected == deterioration # Pending

\* The previous result a current result is compared with: the first one with
\* the same code, 0 when there is none.
Matched(i) ==
    LET same == {j \in 1..Len(previousLabs) : previousLabs[j].code = currentLabs[i].code}
    IN  IF same = {} THEN 0 ELSE CHOOSE j \in same : \A k \in same : j <= k

NamedBy(lab, word) == Includes(ToLowerCase(lab.code), word)

\* Both values are numbers and the increase over the previous one is more
\* than pct percent (from 0, any increase is).
IncreaseAbove(cur, prev, pct) ==
    /\ cur.value.t = "number"
    /\ prev.value.t = "number"
    /\ prev.value.n >= 0
    /\ IF prev.value.n = 0 THEN cur.value.n > 0
       ELSE 100 * (cur.value.n - prev.value.n) > pct * prev.value.n

WorseningOf(i) ==
    IF Matched(i) = 0 THEN 0
    ELSE LET cur == currentLabs[i]
             prev == previousLabs[Matched(i)]
         IN  (IF \/ (cur.status = "critical" /\ prev.status # "critical")
                 \/ (cur.status = "abnormal" /\ prev.status = "normal")
              THEN 1 ELSE 0)
             + (IF NamedBy(cur, "creatinine") /\ IncreaseAbove(cur, prev, 25) THEN 1 ELSE 0)
             + (IF NamedBy(cur, "lactate") /\ IncreaseAbove(cur, prev, 20) THEN 1 ELSE 0)

TotalWorsening == SumSeq([i \in 1..Len(currentLabs) |-> WorseningOf(i)])

SodiumUp     == Lab("sodium", "Sodium", Num(1400), "abnormal", T1)
CreatinineUp == Lab("Creatinine [Mass/volume]", "Creatinine", Num(130), "normal", T1)
LactateUp    == Lab("lactate", "Lactate", Num(125), "normal", T1)
Baseline ==
    << Lab("sodium", "Sodium", Num(1400), "normal", T0),
       Lab("Creatinine [Mass/volume]", "Creatinine", Num(100), "normal", T0),
       Lab("lactate", "Lactate", Num(100), "normal", T0) >>

\* C10: the result is true iff W >= 3, W being the sum over the current
\* results that have a previous result of the same code of: 1 for a status
\* that went to critical from non-critical or to abnormal from normal, 1 for
\* a creatinine-named code with an increase of more than 25 percent, 1 for a
\* lactate-named code with an increase of more than 20 percent.  Sodium
\* normal->abnormal, creatinine +30% and lactate +25% together give true; two
\* of them give false.
C10_DeteriorationIffThreeWorsenings ==
    Detected =>
        /\ deterioration[1] <=> TotalWorsening >= 3
        /\ (currentLabs = <<SodiumUp, CreatinineUp, LactateUp>> /\ previousLabs = Baseline)
              => deterioration[1] = TRUE
        /\ (currentLabs \in {<<SodiumUp, CreatinineUp>>, <<SodiumUp, LactateUp>>,
                             <<CreatinineUp, LactateUp>>} /\ previousLabs = Baseline)
              => deterioration[1] = FALSE

C10_Witness ==
    /\ Detected
    /\ currentLabs = <<SodiumUp, CreatinineUp, LactateUp>>
    /\ previousLabs = Baseline
    /\ deterioration[1] = TRUE

\* The current results that have a previous result of the same code.
MatchedOnly ==
    LET keep == {i \in 1..Len(currentLabs) : Matched(i) # 0}
        Nth(k) == CHOOSE i \in keep : Cardinality({j \in keep : j < i}) = k - 1
    IN  [k \in 1..Cardinality(keep) |-> currentLabs[Nth(k)]]

KCritical == Lab("K", "Potassium", Num(70), "critical", T0)

\* C11: the result is false whenever the previous collection is empty; a
\* current result with no previous result of the same code adds nothing to
\* the count, whatever its status or value: removing all such results leaves
\* the result unchanged, and when no current result has a match the result is
\* false.  previous = [K critical] with current = [] gives false.
C11_NoBaselineNoWorsening ==
    Detected =>
        /\ previousLabs = <<>> => deterioration[1] = FALSE
        /\ deterioration[1] = detectDeterioration(MatchedOnly, previousLabs)
        /\ (\A i \in 1..Len(currentLabs) : Matched(i) = 0) => deterioration[1] = FALSE
        /\ (previousLabs = <<KCritical>> /\ currentLabs = <<>>) => deterioration[1] = FALSE

\* Three current results, none normal, none with a previous result of its code.
C11_Witness ==
    /\ Detected
    /\ previousLabs = <<KCritical>>
    /\ Len(currentLabs) = 3
    /\ \A i \in 1..3 : currentLabs[i].status # "normal" /\ Matched(i) = 0
    /\ deterioration[1] = FALSE

-----------------------------------------------------------------------------
(* Claims about calculateMELD, under SpecMeld *)

MeldDone   == meld # Pending
MeldResult == meld[1]

\* The result calculateMELD selects for a word: the first one whose code
\* contains it, whatever the case; 0 when there is none.
Selected(word) == FirstOf({i \in 1..Len(meldLabs) : NamedBy(meldLabs[i], word)})

MeldWords == {"bilirubin", "inr", "creatinine"}

\* A value that is a number, or a text that writes one.
IsNumericValue(v) == v.t = "number" \/ v.s \in {"2.5"}

\* C12: the result is null, and the call returns, iff the collection lacks a
\* bilirubin-named, an INR-named or a creatinine-named result, or the value
\* of one of the three selected results is non-numeric; otherwise the result
\* is a number.
C12_MeldNullIffIncomplete ==
    /\ ~MeldDone => ENABLED CalculateMELD
    /\ MeldDone =>
          LET missing == \E w \in MeldWords : Selected(w) = 0
              nonNumeric == \E w \in MeldWords :
                                /\ Selected(w) # 0
                                /\ ~IsNumericValue(meldLabs[Selected(w)].value)
          IN  /\ MeldResult.null <=> (missing \/ nonNumeric)
              /\ ~MeldResult.null => MeldResult.n \in Nat

\* All three are present, and the selected creatinine or bilirubin is 'N/A'.
C12_Witness ==
    /\ MeldDone
    /\ \A w \in MeldWords : Selected(w) # 0
    /\ \E w \in MeldWords : meldLabs[Selected(w)].value = Str("N/A")
    /\ MeldResult.null

\* The number a selected value stands for, in tenths.
NumberOf(v) == IF v.t = "number" THEN v.n ELSE 25

SelectedValue(word) == NumberOf(meldLabs[Selected(word)].value)

\* The weighted sum of the three selected values, before clamping and rounding.
SelectedSum ==
    MeldSum(Finite(SelectedValue("bilirubin")), Finite(SelectedValue("inr")),
            Finite(SelectedValue("creatinine")))

\* C13: every non-null result is an integer in [6, 40]; it is exactly 6 when
\* bilirubin, INR and creatinine are all <= 1; and it equals the sum rounded
\* first and clamped to [6, 40] afterwards.
C13_MeldRange ==
    (MeldDone /\ ~MeldResult.null) =>
        /\ MeldResult.n \in 6..40
        /\ (\A w \in MeldWords : SelectedValue(w) <= 10) => MeldResult.n = 6
        /\ MeldResult.n = Min(Max(MathRound(SelectedSum), 6), 40)

\* The sum is above 40 and the result is 40.
C13_Witness ==
    /\ MeldDone
    /\ ~MeldResult.null
    /\ SelectedSum > 40 * MeldUnit
    /\ MeldResult.n = 40

-----------------------------------------------------------------------------
(* Claims about calculateOrganSystemRisks, under SpecOrgan *)

OrgansDone == organRisks # Pending
Organs     == organRisks[1]

\* The systems with their code words and weights, in the order of emission.
Systems ==
    << [system |-> "Renal",   keys |-> {"creatinine", "bun", "egfr"}, wA |-> 10, wC |-> 20],
       [system |-> "Cardiac", keys |-> {"troponin", "bnp", "ck"},     wA |-> 15, wC |-> 25],
       [system |-> "Hepatic", keys |-> {"alt", "ast", "bilirubin", "albumin"},
        wA |-> 8, wC |-> 18] >>

SystemOf(name) == CHOOSE k \in 1..Len(Systems) : Systems[k].system = name

\* The positions of the input results that match system k.
MatchesOf(k) ==
    {i \in 1..Len(organLabs) : \E w \in Systems[k].keys : CodeHas(organLabs[i], w)}

MatchesWithStatus(k, st) == {i \in MatchesOf(k) : organLabs[i].status = st}

\* The elements of seq at the positions in keep, in the order of seq.
Pick(seq, keep) ==
    LET Nth(n) == CHOOSE i \in keep : Cardinality({j \in keep : j < i}) = n - 1
    IN  [n \in 1..Cardinality(keep) |-> seq[Nth(n)]]

\* C14: for each emitted system, score = min(abnormalCount * wA +
\* criticalCount * wC, 100) with the weights (10, 20), (15, 25), (8, 18),
\* abnormalCount the number of matched results with status abnormal and
\* criticalCount the number with status critical; the score is in [0, 100].
C14_ScoreFromStatusCounts ==
    OrgansDone =>
        \A e \in 1..Len(Organs) :
            LET k == SystemOf(Organs[e].system)
                abnormalCount == Cardinality(MatchesWithStatus(k, "abnormal"))
                criticalCount == Cardinality(MatchesWithStatus(k, "critical"))
            IN  /\ Organs[e].score
                      = Min(abnormalCount * Systems[k].wA + criticalCount * Systems[k].wC, 100)
                /\ Organs[e].score \in 0..100

\* C15: for each emitted system, trend = worsening iff a matched result is
\* critical, stable iff none is critical and one is abnormal, improving iff
\* all are normal; improving implies score = 0, worsening implies score > 0.
C15_TrendFromStatuses ==
    OrgansDone =>
        \A e \in 1..Len(Organs) :
            LET k == SystemOf(Organs[e].system)
                anyCritical == MatchesWithStatus(k, "critical") # {}
                anyAbnormal == MatchesWithStatus(k, "abnormal") # {}
                allNormal == MatchesWithStatus(k, "normal") = MatchesOf(k)
            IN  /\ Organs[e].trend \in {"worsening", "stable", "improving"}
                /\ Organs[e].trend = "worsening" <=> anyCritical
                /\ Organs[e].trend = "stable" <=> (~anyCritical /\ anyAbnormal)
                /\ Organs[e].trend = "improving" <=> allNormal
                /\ Organs[e].trend = "improving" => Organs[e].score = 0
                /\ Organs[e].trend = "worsening" => Organs[e].score > 0

\* A system with a critical and an abnormal result, and one with normal ones only.
C15_Witness ==
    /\ OrgansDone
    /\ \E e \in 1..Len(Organs) :
          /\ Organs[e].trend = "worsening"
          /\ MatchesWithStatus(SystemOf(Organs[e].system), "abnormal") # {}
    /\ \E e \in 1..Len(Organs) : Organs[e].trend = "improving"

\* C16: a system is emitted iff an input result matches it, never with an
\* empty markers list, at most once and in the order Renal, Cardiac, Hepatic;
\* its markers are the display names of all its matched results, in input
\* order.
C16_SystemsEmittedIffMatched ==
    OrgansDone =>
        /\ \A k \in 1..Len(Systems) :
              (\E e \in 1..Len(Organs) : Organs[e].system = Systems[k].system)
                  <=> MatchesOf(k) # {}
        /\ \A e \in 1..Len(Organs) :
              /\ Organs[e].system \in {Systems[k].system : k \in 1..Len(Systems)}
              /\ Organs[e].markers # <<>>
              /\ Organs[e].markers
                    = Pick([i \in 1..Len(organLabs) |-> organLabs[i].name],
                           MatchesOf(SystemOf(Organs[e].system)))
        /\ \A e, f \in 1..Len(Organs) :
              e < f => SystemOf(Organs[e].system) < SystemOf(Organs[f].system)

\* Renal and Hepatic emitted, Cardiac left out, one result in both systems and
\* one in none.
C16_Witness ==
    /\ OrgansDone
    /\ Len(Organs) = 2
    /\ Organs[1].system = "Renal" /\ Organs[2].system = "Hepatic"
    /\ MatchesOf(1) \cap MatchesOf(3) # {}
    /\ \E i \in 1..Len(organLabs) : \A k \in 1..Len(Systems) : i \notin MatchesOf(k)
    /\ Len(Organs[1].markers) = 2

-----------------------------------------------------------------------------
(* Claims about the marker patterns and the recency window, under SpecRisk *)

\* Result i is at most 48 hours old at the clock's time.
InWindow(i) ==
    labs[i].effectiveDateTime.valid /\ now - labs[i].effectiveDateTime.t <= 48

\* Result i is more than 48 hours old at the clock's time.
OlderThanWindow(i) ==
    labs[i].effectiveDateTime.valid /\ now - labs[i].effectiveDateTime.t > 48

\* The RiskScore lists the marker among its High-Risk Markers.
MarkerListed(r, m) ==
    \E f \in FactorsNamed(r, "High-Risk Markers") : Includes(f.value, m)

NumericAbove(v, bound) == v.t = "number" /\ v.n > bound

\* A creatinine-named result in the window, not normal, with a value > 2.0.
QualifyingCreatinine(i) ==
    /\ InWindow(i)
    /\ NamedBy(labs[i], "creatinine")
    /\ labs[i].status # "normal"
    /\ NumericAbove(labs[i].value, 20)

\* C17: the AKI Risk marker is added iff the window contains a
\* creatinine-named result that is not normal and has a numeric value > 2.0,
\* whatever other creatinine-named results the window holds and in whatever
\* order.
C17_AKIWheneverQualifying ==
    MarkerListed(riskScore, "AKI Risk")
        <=> \E i \in 1..Len(labs) : QualifyingCreatinine(i)

CriticalWhiteCells(i) ==
    /\ InWindow(i)
    /\ (NamedBy(labs[i], "wbc") \/ NamedBy(labs[i], "white"))
    /\ labs[i].status = "critical"

HighLactate(i) ==
    /\ InWindow(i)
    /\ NamedBy(labs[i], "lactate")
    /\ NumericAbove(labs[i].value, 20)

\* How often the marker's name is in the list of a RiskScore's markers.
TimesListed(r, m) ==
    LET fs == FactorsNamed(r, "High-Risk Markers") IN
    IF fs = {} THEN 0
    ELSE LET v == (CHOOSE f \in fs : TRUE).value IN
         Cardinality({i \in 1..Len(v) : i + Len(m) - 1 <= Len(v)
                                         /\ SubSeq(v, i, i + Len(m) - 1) = m})

\* C18: the Sepsis Risk marker is added, once and for 20 points, iff the
\* window contains a WBC/white-cell result with status critical or a lactate
\* result with a numeric value > 2; a lactate result with a non-numeric value
\* does not trigger it.
C18_SepsisOnceIffTriggered ==
    LET triggered == \E i \in 1..Len(labs) : CriticalWhiteCells(i) \/ HighLactate(i)
    IN  /\ MarkerListed(riskScore, "Sepsis Risk") <=> triggered
        /\ TimesListed(riskScore, "Sepsis Risk") <= 1

\* The results that are not more than 48 hours old.
WithoutOld == Pick(labs, {i \in 1..Len(labs) : ~OlderThanWindow(i)})

\* C19: a result more than 48 hours older than the current time contributes
\* nothing: with every such result removed from the input, score, level and
\* factors are the same.
C19_OldResultsContributeNothing ==
    riskScore = calculatePatientRisk(WithoutOld, now)

\* An abnormal and a critical result, both older than 48 hours, among others.
C19_Witness ==
    /\ \E i \in 1..Len(labs) : OlderThanWindow(i) /\ labs[i].status = "abnormal"
    /\ \E i \in 1..Len(labs) : OlderThanWindow(i) /\ labs[i].status = "critical"
    /\ \E i \in 1..Len(labs) : InWindow(i)
    /\ riskScore.score > 0

-----------------------------------------------------------------------------
(* Claims about the data points of a trend, under SpecTrend *)

\* The point a numeric result is shown as.
PointOf(r) == [date |-> r.effectiveDateTime, value |-> r.value.n, status |-> r.status]

\* The points of all numeric results of an analyte, in input order.
NumericPoints(labName) ==
    LET keep == {i \in 1..Len(labResults) :
                    labResults[i].name = labName /\ labResults[i].value.t = "number"}
    IN  Pick([i \in 1..Len(labResults) |->
                 IF i \in keep THEN PointOf(labResults[i]) ELSE <<>>], keep)

TimesIn(seq, x) == Cardinality({i \in 1..Len(seq) : seq[i] = x})

\* C20: the data of every trend holds between 1 and 10 points; they are the
\* most recent numeric results of the analyte (as many as there are, at most
\* 10: each point is a numeric result of the analyte, and no numeric result
\* left out is newer than a point), ordered oldest to newest; the last
\* point's value is currentValue and, with two or more points, the one before
\* it is previousValue.
C20_DataAreRecentPoints ==
    TrendsReturned =>
        \A t \in 1..Len(Trends) :
            LET data == Trends[t].data
                all == NumericPoints(Trends[t].labName)
                n == Len(data)
            IN  /\ n >= 1
                /\ n = Min(Len(all), 10)
                /\ \A i \in 1..n : TimesIn(data, data[i]) <= TimesIn(all, data[i])
                /\ \A j \in 1..Len(all) :
                      TimesIn(data, all[j]) < TimesIn(all, all[j])
                          => \A i \in 1..n : all[j].date.t <= data[i].date.t
                /\ \A i \in 1..n : \A j \in 1..n :
                      i < j => data[i].date.t <= data[j].date.t
                /\ data[n].value = Trends[t].currentValue
                /\ n >= 2 => Trends[t].previousValue = Some(data[n - 1].value)

\* More than 10 numeric results, given in no order of time, one without a value.
C20_Witness ==
    /\ TrendsReturned
    /\ Len(Trends) = 1
    /\ Len(NumericPoints("Sodium")) = 11
    /\ Len(Trends[1].data) = 10
    /\ labResults[1].value = Str("N/A")
    /\ labResults[2].effectiveDateTime.t > labResults[3].effectiveDateTime.t
    /\ labResults[3].effectiveDateTime.t < labResults[4].effectiveDateTime.t

-----------------------------------------------------------------------------
(* Claims about non-numeric results in processLabTrends, under SpecTrend *)

\* The display names that have a result with a numeric value.
NumericNames ==
    {labResults[i].name : i \in {j \in 1..Len(labResults) : labResults[j].value.t = "number"}}

\* The values of the numeric results of an analyte.
NumericValues(labName) ==
    {labResults[i].value.n :
        i \in {j \in 1..Len(labResults) :
                  labResults[j].name = labName /\ labResults[j].value.t = "number"}}

\* The newest result of the analyte has no numeric value.
NewestIsNonNumeric(labName) ==
    \E i \in 1..Len(labResults) :
        /\ labResults[i].name = labName
        /\ labResults[i].value.t # "number"
        /\ \A j \in 1..Len(labResults) :
              (labResults[j].name = labName /\ j # i)
                  => labResults[j].effectiveDateTime.t < labResults[i].effectiveDateTime.t

\* C21: exactly one trend for every display name that has a numeric result and
\* none for a name whose results are all non-numeric; current value, previous
\* value and data points are values of numeric results of the analyte, also
\* when its newest results are non-numeric.
C21_TrendsOnlyFromNumericResults ==
    TrendsReturned =>
        /\ \A name \in NumericNames :
              Cardinality({t \in 1..Len(Trends) : Trends[t].labName = name}) = 1
        /\ \A t \in 1..Len(Trends) :
              LET values == NumericValues(Trends[t].labName) IN
              /\ Trends[t].labName \in NumericNames
              /\ Trends[t].currentValue \in values
              /\ Trends[t].previousValue.def => Trends[t].previousValue.v \in values
              /\ \A i \in 1..Len(Trends[t].data) :
                    Trends[t].data[i] \in {PointOf(labResults[j]) :
                        j \in {k \in 1..Len(labResults) :
                                  /\ labResults[k].name = Trends[t].labName
                                  /\ labResults[k].value.t = "number"}}

\* Sodium's newest result is 'N/A' and an older one is the current value;
\* lactate has no numeric result and no trend.
C21_Witness ==
    /\ TrendsReturned
    /\ Len(Trends) = 1
    /\ Trends[1].labName = "Sodium"
    /\ NewestIsNonNumeric("Sodium")
    /\ \E i \in 1..Len(labResults) : labResults[i].name = "Lactate"
    /\ "Lactate" \notin NumericNames

-----------------------------------------------------------------------------
(* Claims about the direction of a trend, under SpecTrend *)

\* C26: when the previous numeric value of an analyte is 0, processLabTrends
\* returns (it can be applied to every collection of one or two results, a
\* previous value of 0 among them), and the trend is rising or falling for
\* every current value, 0 included.
C26_ZeroPreviousIsNotStable ==
    /\ (~TrendsReturned /\ Len(labResults) <= 2) => ENABLED ProcessLabTrends
    /\ TrendsReturned =>
          \A t \in 1..Len(Trends) :
              Trends[t].previousValue = Some(0) => Trends[t].trend \in {"rising", "falling"}

\* From 0 to 0, and from 0 to a positive and to a negative value.
C26_Witness ==
    /\ TrendsReturned
    /\ \E t \in 1..Len(Trends) :
          /\ Trends[t].previousValue = Some(0)
          /\ Trends[t].currentValue = 0
          /\ Trends[t].trend = "falling"

\* C27 as stated: rising only if current > previous, falling only if current
\* < previous, and current = previous always gives stable.
C27_AsStated ==
    TrendsReturned =>
        \A t \in 1..Len(Trends) :
            Trends[t].previousValue.def =>
                LET cur == Trends[t].currentValue
                    prev == Trends[t].previousValue.v
                IN  /\ Trends[t].trend = "rising" => cur > prev
                    /\ Trends[t].trend = "falling" => cur < prev
                    /\ cur = prev => Trends[t].trend = "stable"

\* C27, amended: rising only if current > previous; falling only if current <
\* previous or both are 0; current = previous gives stable unless both are 0,
\* where it gives falling.
C27_DirectionAgreesWithValues ==
    TrendsReturned =>
        \A t \in 1..Len(Trends) :
            Trends[t].previousValue.def =>
                LET cur == Trends[t].currentValue
                    prev == Trends[t].previousValue.v
                IN  /\ Trends[t].trend = "rising" => cur > prev
                    /\ Trends[t].trend = "falling" => (cur < prev \/ (cur = 0 /\ prev = 0))
                    /\ (cur = prev /\ prev # 0) => Trends[t].trend = "stable"
                    /\ (cur = 0 /\ prev = 0) => Trends[t].trend = "falling"

\* Equal values that are not 0, among them negative ones, and a rise from a
\* negative value.
C27_Witness ==
    /\ TrendsReturned
    /\ Len(Trends) = 1
    /\ Trends[1].previousValue.def
    /\ Trends[1].currentValue = Trends[1].previousValue.v
    /\ Trends[1].currentValue < 0
    /\ Trends[1].trend = "stable"

-----------------------------------------------------------------------------
(* Claims about timestamps outside the past 48 hours, under SpecRisk *)

\* Result i was taken after the clock's time.
InFuture(i) ==
    labs[i].effectiveDateTime.valid /\ labs[i].effectiveDateTime.t > now

\* The input with every result of the future taken at the clock's time instead.
FutureTakenNow ==
    [i \in 1..Len(labs) |->
        IF InFuture(i) THEN [labs[i] EXCEPT !.effectiveDateTime = DateTime(now)]
        ELSE labs[i]]

\* The input without the results whose timestamp cannot be parsed.
WithoutUnparseable == Pick(labs, {i \in 1..Len(labs) : labs[i].effectiveDateTime.valid})

\* C28: a result with a timestamp later than the current time is inside the
\* window, whatever the offset: the RiskScore is the one the same input gives
\* with those results taken now, so its status is counted and it triggers the
\* marker patterns like a recent result; a result with an unparseable
\* timestamp is excluded: the RiskScore is the one the input gives without it.
C28_FutureInsideUnparseableOutside ==
    /\ riskScore = calculatePatientRisk(FutureTakenNow, now)
    /\ riskScore = calculatePatientRisk(WithoutUnparseable, now)

\* A future INR of 3.0 raises the Coagulopathy marker; a critical potassium
\* with an unparseable timestamp is not counted.
C28_Witness ==
    /\ \E i \in 1..Len(labs) : InFuture(i) /\ NamedBy(labs[i], "inr")
    /\ \E i \in 1..Len(labs) : ~labs[i].effectiveDateTime.valid /\ labs[i].status = "critical"
    /\ MarkerListed(riskScore, "Coagulopathy")
    /\ WindowCount("critical") = 0
    /\ FactorsNamed(riskScore, "Critical Values") = {}

-----------------------------------------------------------------------------
(* Claims about getLabNarrative, under SpecNarrative *)

Narrated == narrative # Pending

StatusSentence ==
    [st \in {"critical", "abnormal", "normal"} |->
        CASE st = "critical" -> "This is a CRITICAL value requiring immediate attention."
          [] st = "abnormal" -> "This value is outside the normal range."
          [] st = "normal" -> "This value is within normal limits."]

\* The sentence fixed for a trend's direction, with the magnitude of its
\* deltaPercent to one decimal.
TrendSentence(trend) ==
    CASE trend.trend = "stable" -> "The value has remained relatively stable."
      [] trend.trend = "rising" ->
             "The value has increased by " \o AbsToFixed1(trend.deltaPercent[1])
                 \o "% since the last test."
      [] trend.trend = "falling" ->
             "The value has decreased by " \o AbsToFixed1(trend.deltaPercent[1])
                 \o "% since the last test."

HasPrevious == narrativeTrend # Pending /\ narrativeTrend[1].previousValue.def

\* C25: the narrative contains the sentence fixed for the result's status;
\* with a trend that has a previous value it contains the sentence fixed for
\* the trend's direction (for rising and falling with the magnitude of
\* deltaPercent); without a trend, or with a trend without previous value, it
\* has no trend sentence; the call returns a text.
C25_NarrativeSentences ==
    Narrated =>
          /\ Len(narrative[1]) > 0
          /\ Includes(narrative[1], StatusSentence[narrativeLab.status])
          /\ HasPrevious => Includes(narrative[1], TrendSentence(narrativeTrend[1]))
          /\ ~HasPrevious => ~Includes(narrative[1], "The value has")

-----------------------------------------------------------------------------
(* Claims about PatientSelector, under SpecSelector *)

\* The distinct ids of a call sequence, the most recently reported first.
RECURSIVE LatestFirst(_)
LatestFirst(ids) ==
    IF ids = <<>> THEN <<>>
    ELSE LET id == ids[Len(ids)]
             before == LatestFirst(SubSeq(ids, 1, Len(ids) - 1))
         IN  <<id>> \o SelectSeq(before, LAMBDA x : x # id)

Position(list, id) == FirstOf({i \in 1..Len(list) : list[i] = id})

Selecting == reportedIds' # reportedIds

\* C30: the stored list has no duplicates and at most 5 entries and begins
\* with the selected ids, the latest selection first; a selection puts its id
\* first, keeps the other ids in their order and drops only from the end of
\* a full list, reports the id through onPatientSelect and closes the modal.
C30_RecentPatients ==
    /\ [](/\ HasNoDuplicates(recentPatients)
          /\ Len(reportedIds) > 0 => Len(recentPatients) <= 5
          /\ LET latest == LatestFirst(reportedIds)
                 n == Min(Len(latest), 5)
             IN  /\ Len(recentPatients) >= n
                 /\ SubSeq(recentPatients, 1, n) = SubSeq(latest, 1, n))
    /\ [][Selecting =>
            /\ Len(reportedIds') = Len(reportedIds) + 1
            /\ recentPatients'[1] = reportedIds'[Len(reportedIds')]
            /\ ~isOpen'
            /\ \A a, b \in PatientIds \ {recentPatients'[1]} :
                  (Position(recentPatients', a) # 0 /\ Position(recentPatients', b) # 0
                      /\ Position(recentPatients', a) < Position(recentPatients', b))
                  => (Position(recentPatients, a) # 0
                        /\ Position(recentPatients, a) < Position(recentPatients, b))
            /\ \A a \in PatientIds \ {recentPatients'[1]} :
                  (Position(recentPatients, a) # 0 /\ Position(recentPatients', a) = 0)
                  => (Len(recentPatients') = 5 /\ Position(recentPatients, a) >= 5)
         ]_vars

\* Four selections on top of two stored ids: the list is full and the oldest
\* stored id has been dropped.
C30_Witness ==
    /\ Len(reportedIds) = 4
    /\ Len(recentPatients) = 5
    /\ HasNoDuplicates(reportedIds)
    /\ \E id \in StoredIds : Position(recentPatients, id) = 0
    /\ ~isOpen

-----------------------------------------------------------------------------
(* Claims about LabDashboard, under SpecDashboard *)

AllCallsCompleted == started > 0 /\ calls = <<>>

Displayed == <<patient, dashboardLabResults, dashboardLabTrends, diagnosticReports>>

\* Every call has completed and the four displayed items are those of
\* currentPatientId, with both flags down.
SettledOnLatest ==
    AllCallsCompleted =>
       /\ \A i \in 1..4 : Displayed[i].patientId = currentPatientId
       /\ ~loading
       /\ ~refreshing

\* No displayed item is replaced by the response of an older call.
NoStaleOverwrite == \A i \in 1..4 : Displayed[i]'.call >= Displayed[i].call

\* C29: once every fetchData call has completed, the displayed patient,
\* results, trends and reports are those of currentPatientId and loading and
\* refreshing are false; and no response of an older call replaces what a
\* newer call has set.
C29_LatestRequestWins == []SettledOnLatest /\ [][NoStaleOverwrite]_vars
-----------------------------------------------------------------------------
(* Claims about the derivations side by side, under SpecCalls *)

CallStart == 2 * HoursPerDay

\* A second invocation with the input of the first returns what the first did.
SameAgain(input, result) ==
    (input' = input /\ result # Pending /\ result' # Pending) => result' = result

PureButForRisk ==
    /\ SameAgain(labResults, labTrends)
    /\ SameAgain(<<currentLabs, previousLabs>>, deterioration)
    /\ SameAgain(meldLabs, meld)
    /\ SameAgain(organLabs, organRisks)
    /\ SameAgain(<<narrativeLab, narrativeTrend>>, narrative)

\* C22 as stated: every derivation, calculatePatientRisk included, returns
\* on equal input what it returned before, whatever the time of the two
\* invocations and whatever was computed in between.
C22_AsStated == [][PureButForRisk /\ SameAgain(labs, riskScore)]_vars

\* C22: calculateOrganSystemRisks, calculateMELD, detectDeterioration,
\* processLabTrends and getLabNarrative return on equal input what they
\* returned before, whatever the time and whatever was computed in between;
\* what calculatePatientRisk returns is fixed by its input and the time of
\* the invocation, and two invocations on equal input differ only when
\* between them a result has left the 48-hour window.
C22_PureButForTheClock ==
    /\ [][PureButForRisk]_vars
    /\ [](riskScore # Pending =>
            \E t \in CallStart..now : riskScore = Returned(calculatePatientRisk(labs, t)))
    /\ [][(labs' = labs /\ riskScore # Pending /\ riskScore' # Pending
              /\ riskScore' # riskScore)
            => RecentLabs(labs, now') # RecentLabs(labs, CallStart)]_vars

AllReturned ==
    /\ riskScore # Pending
    /\ labTrends # Pending
    /\ deterioration # Pending
    /\ meld # Pending
    /\ organRisks # Pending
    /\ narrative # Pending

NoneReturned ==
    /\ riskScore = Pending
    /\ labTrends = Pending
    /\ deterioration = Pending
    /\ meld = Pending
    /\ organRisks = Pending
    /\ narrative = Pending

\* Everything has been computed, and calculatePatientRisk, invoked again an
\* hour after the start, has returned something else than it would have at
\* the start.
C22_Witness ==
    /\ AllReturned
    /\ now > CallStart
    /\ riskScore = Returned(calculatePatientRisk(labs, now))
    /\ riskScore # Returned(calculatePatientRisk(labs, CallStart))
    /\ narrativeTrend # Pending

\* C23: no invocation changes a collection it is given: the elements, their
\* order and the fields of every record stay as they were, so all derivations
\* keep seeing the one collection they were handed.
C23_InputsUntouched ==
    /\ [][/\ labs' = labs
          /\ labResults' = labResults
          /\ currentLabs' = currentLabs
          /\ previousLabs' = previousLabs
          /\ meldLabs' = meldLabs
          /\ organLabs' = organLabs]_vars
    /\ [](/\ labResults = labs
          /\ currentLabs = labs
          /\ meldLabs = labs
          /\ organLabs = labs)

\* processLabTrends has returned a trend for two results of one analyte that
\* were handed over oldest first, and the other derivations have returned.
C23_Witness ==
    /\ AllReturned
    /\ Len(labResults) = 2
    /\ labResults[1].name = labResults[2].name
    /\ labResults[1].effectiveDateTime.t < labResults[2].effectiveDateTime.t
    /\ Len(labTrends[1]) = 1
    /\ Len(labTrends[1][1].data) = 2

\* A value that neither is a number nor writes one.
NonNumeric(v) == ~IsNumericValue(v)

\* The results of labs at most 48 hours old at time t.
WindowAt(t) ==
    {i \in 1..Len(labs) :
        labs[i].effectiveDateTime.valid /\ t - labs[i].effectiveDateTime.t <= 48}

\* r counts the results of status st among n of them.
CountsByStatus(r, factor, st, n) ==
    IF n = 0 THEN FactorsNamed(r, factor) = {}
    ELSE \E f \in FactorsNamed(r, factor) : f.value = ToString(n) \o " " \o st

\* r is a RiskScore that counts every result of the window at t by its
\* status and has no value-based marker from non-numeric values.
RiskToleratesAt(r, t) ==
    LET named(w) == {i \in WindowAt(t) : NamedBy(labs[i], w)}
        allNonNumeric(S) == \A i \in S : NonNumeric(labs[i].value)
        withStatus(st) == Cardinality({i \in WindowAt(t) : labs[i].status = st})
    IN  /\ r.score \in 0..100
        /\ r.level \in {"critical", "high", "moderate", "low"}
        /\ CountsByStatus(r, "Critical Values", "critical", withStatus("critical"))
        /\ CountsByStatus(r, "Abnormal Values", "abnormal", withStatus("abnormal"))
        /\ allNonNumeric(named("creatinine")) => ~MarkerListed(r, "AKI Risk")
        /\ (/\ allNonNumeric(named("lactate"))
            /\ \A i \in named("wbc") \cup named("white") : labs[i].status # "critical")
           => ~MarkerListed(r, "Sepsis Risk")
        /\ allNonNumeric(named("inr") \cup named("platelet") \cup named("plt"))
           => ~MarkerListed(r, "Coagulopathy")

\* C24: each of the five derivations can be invoked on, and has a result for,
\* collections with non-numeric values, without previous results and without
\* the analytes it looks for; a non-numeric value starts no value-based
\* marker, no percent-change worsening and no trend point, and makes the MELD
\* score null, while its result is counted by status.
C24_ToleratesMissingAndNonNumeric ==
    /\ NoneReturned =>
          /\ ENABLED CallCalculatePatientRisk
          /\ ENABLED CallProcessLabTrends
          /\ ENABLED CallDetectDeterioration
          /\ ENABLED CallCalculateMELD
          /\ ENABLED CallCalculateOrganSystemRisks
    /\ riskScore # Pending =>
          \E t \in CallStart..now :
             /\ riskScore = Returned(calculatePatientRisk(labs, t))
             /\ RiskToleratesAt(riskScore[1], t)
    /\ labTrends # Pending =>
          /\ Len(Trends) = Cardinality(NumericNames)
          /\ \A k \in 1..Len(Trends) :
                /\ Trends[k].labName \in NumericNames
                /\ Len(Trends[k].data) = Len(NumericPoints(Trends[k].labName))
                /\ \A p \in 1..Len(Trends[k].data) :
                      TimesIn(NumericPoints(Trends[k].labName), Trends[k].data[p]) > 0
    /\ deterioration # Pending =>
          /\ deterioration[1] \in BOOLEAN
          /\ deterioration[1] <=> (previousLabs # <<>> /\ TotalWorsening >= 3)
    /\ meld # Pending =>
          /\ meld[1].null \/ meld[1].n \in 6..40
          /\ (\E w \in MeldWords :
                 Selected(w) = 0 \/ NonNumeric(meldLabs[Selected(w)].value))
             => meld[1].null
    /\ organRisks # Pending =>
          \A k \in 1..Len(Organs) :
             /\ Organs[k].score \in 0..100
             /\ Len(Organs[k].markers) = Cardinality(MatchesOf(SystemOf(Organs[k].system)))
             /\ (Organs[k].trend = "worsening") <=>
                   MatchesWithStatus(SystemOf(Organs[k].system), "critical") # {}

\* All five have returned for a critical creatinine of value 'N/A' and an
\* abnormal lactate of value 'N/A', compared with a baseline: both are
\* counted by status and worsened by status, and no marker, trend or MELD
\* score comes of them.
C24_Witness ==
    /\ AllReturned
    /\ Len(labs) = 2
    /\ \A i \in 1..2 : NonNumeric(labs[i].value) /\ labs[i].status # "normal"
    /\ labs[1].status # labs[2].status
    /\ previousLabs # <<>>
    /\ TotalWorsening = 2
    /\ Trends = <<>>
    /\ meld[1].null
    /\ \E f \in FactorsNamed(riskScore[1], "Critical Values") : f.value = "1 critical"
    /\ FactorsNamed(riskScore[1], "High-Risk Markers") = {}
    /\ Len(Organs) = 1

=============================================================================
